---- MODULE Spec2Model ----
(***************************************************************************)
(* Label encoding of the YOLO and CenterNet data loaders.                  *)
(*                                                                         *)
(* Coordinates are exact rationals: a normalised box coordinate is an     *)
(* integer numerator over Den, an anchor prior is in pixels.  An IoU is    *)
(* the pair <<intersection, union>> and is compared by cross               *)
(* multiplication, so no rounding is modelled.                             *)
(***************************************************************************)
EXTENDS Integers, Sequences, FiniteSets, TLC

Max(a, b) == IF a >= b THEN a ELSE b
Min(a, b) == IF a <= b THEN a ELSE b

\* ------------------------------------------------------------------ bounds
\* number of raw instances an image may carry
MaxDets == 2
\* Parser(max_num_instances=...): the fixed instance capacity
MaxNumInstances == 3

\* ------------------------------------------------------- configuration
\* denominator of the normalised box coordinates of the inputs
Den == 4
\* Parser(image_w, image_h), in pixels
ImageW == 8
ImageH == 8
\* anchor priors (width, height) in pixels, sorted by area
Anchors == << <<1, 1>>, <<2, 2>>, <<4, 2>>, <<2, 4>> >>
NumAnchors == Len(Anchors)
\* per-scale anchor masks: level -> global anchor indices (0-based)
Masks == (1 :> <<0, 1>>) @@ (2 :> <<2, 3>>)
Levels == DOMAIN Masks
\* get_best_anchor2(iou_thresh=0.20)
IouThreshNum == 1
IouThreshDen == 5

\* the boxes an image may carry: <<x_center, y_center, width, height>> over Den
BoxXY == { <<1, 1>>, <<2, 1>>, <<0 - 1, 1>>, <<1, 4>> }
BoxWH == { <<0, 0>>, <<0, 2>>, <<1, 1>>, <<1, 4>>, <<4, 4>> }
BoxSet == { <<xy[1], xy[2], wh[1], wh[2]>> : xy \in BoxXY, wh \in BoxWH }
\* 1-based class ids of the decoder
ClassSet == {1}

\* ------------------------------------------------ parser / CenterNet bounds
\* instances per image handed to Parser._build_grid, and calls made on one parser
MaxParserDets == 1
MaxCalls == 2
\* CenterNetParser(max_num_instances=...) and the instances an image may carry
CnMaxNumInstances == 2
CnMaxDets == CnMaxNumInstances + 1
\* largest radius gaussian_radius may return in the model
MaxRadius == 1

\* CenterNetParser(image_w, image_h, output_dims, num_classes)
CnImage == 8
CnOutputDims == 4
CnNumClasses == 2
\* corner-form boxes <<ytl, xtl, ybr, xbr>> in input pixels
CnBoxSet == { <<0, 2, 3, 7>>, <<2, 0, 6, 4>>, <<1, 1, 1, 1>> }
CnClassSet == 1..CnNumClasses

\* ------------------------------------------------------- padding bounds
\* longest tensor handed to the padding helpers, and the largest capacity
MaxPadLen == 3
MaxPadCap == 3
\* the entries of such a tensor (none of them is a pad value)
PadElems == {1, 2}

\* ---------------------------------------------------- box geometry bounds
\* pairs of boxes in one batch handed to an overlap metric
MaxBatch == 2
\* sizes of the two box sets handed to aggregated_comparitive_iou
MaxBoxes1 == 2
MaxBoxes2 == 3
\* valid boxes in corner form <<y_min, x_min, y_max, x_max>> ...
CornerBoxes == { <<0, 0, 2, 2>>, <<1, 1, 5, 5>>, <<0, 3, 2, 4>>,
                 <<3, 3, 4, 4>>, <<1, 1, 1, 1>> }
\* ... and in centre form <<x_center, y_center, width, height>>
CenterBoxes == { <<1, 1, 2, 2>>, <<3, 3, 4, 4>>, <<4, 1, 2, 2>>,
                 <<7, 7, 2, 2>>, <<1, 1, 0, 0>> }
\* the boxes of the sets handed to aggregated_comparitive_iou
AggBoxes == { <<0, 0, 2, 2>>, <<1, 1, 2, 2>>, <<0, 1, 1, 2>> }

\* ----------------------------------------------------- k-means bounds
\* boxes in the corpus of YoloKmeans, clusters asked for, run_kmeans(max_iter)
MaxBoxNum == 3
MaxK == 3
MaxIter == 2
\* the (width, height) rows a corpus is made of
KmBoxSet == { <<1, 1>>, <<1, 2>>, <<3, 3>>, <<0, 2>> }

\* ------------------------------------------------ minibatch k-means bounds
\* batches in the dataset, mean_steps and epochs of MiniBatchKMeansNN.__call__
MaxBatches == 2
MaxMeanSteps == 1
MaxEpochs == 2
\* clusters asked for
MbMaxK == 2
\* the batches of corner-form boxes <<y_min, x_min, y_max, x_max>>
MbBatchSet == { << <<0, 0, 1, 1>> >>, << <<0, 0, 2, 1>>, <<0, 0, 2, 2>> >> }
\* the draws of tf.random.uniform for one centroid, as <<w, h, denominator>>
MbUniform == { <<1, 2, 4>>, <<3, 1, 4>> }

\* ------------------------------------------------- configuration bounds
\* the configured image width and height, and max_level of the YOLO Parser
MaxImage == 9
MaxLevel == 2
\* the dtype selectors tried: the three supported ones and two others
DtypeSelectors == { "float16", "bfloat16", "float32", "float64", "int32" }
\* model.subdivisions, and the step counts and batch sizes of the params
MaxSubdivisions == 3
MaxSteps == 6
StepValues == { 1, MaxSteps - 1, MaxSteps }

\* ---------------------------------------------------------- box geometry
\* Boxes carry integer coordinates.  A conversion between the two forms
\* halves a sum or a size; so that the halves stay integral each conversion
\* returns every coordinate doubled, and the callers below rescale where they
\* combine quantities that went through a different number of conversions.

\* xcycwh_to_yxyx, every coordinate doubled so that wh / 2 stays integral:
\* returns <<y_min, x_min, y_max, x_max>>
xcycwh_to_yxyx(box) ==
  << 2 * box[2] - box[4], 2 * box[1] - box[3],
     2 * box[2] + box[4], 2 * box[1] + box[3] >>

\* a variant of the inverse conversion that leaves the centre unhalved
yxyx_to_xcycwh_unhalved(box) ==
  << 2 * (box[4] + box[2]), 2 * (box[3] + box[1]),
     2 * (box[4] - box[2]), 2 * (box[3] - box[1]) >>

\* yxyx_to_xcycwh, every coordinate doubled so that (max + min) / 2 stays
\* integral: returns <<x_center, y_center, width, height>>
yxyx_to_xcycwh(box) ==
  << box[4] + box[2], box[3] + box[1],
     2 * (box[4] - box[2]), 2 * (box[3] - box[1]) >>

\* the plain quotient a / b as the fraction <<a, b>>; a zero denominator is
\* the undefined value
divide(a, b) == IF b >= 0 THEN <<a, b>> ELSE <<0 - a, 0 - b>>

\* math_ops.divide_no_nan: the quotient as a fraction <<num, den>> with a
\* positive denominator, 0 when the denominator is 0
divide_no_nan(a, b) ==
  IF b = 0 THEN <<0, 1>>
  ELSE IF b > 0 THEN <<a, b>> ELSE <<0 - a, 0 - b>>

\* a variant of intersect_and_union that does not clamp intersect_wh at 0
intersect_and_union_unclamped(box1, box2, yxyx) ==
  LET b1 == IF yxyx THEN box1 ELSE xcycwh_to_yxyx(box1)
      b2 == IF yxyx THEN box2 ELSE xcycwh_to_yxyx(box2)
      ih == Min(b1[3], b2[3]) - Max(b1[1], b2[1])
      iw == Min(b1[4], b2[4]) - Max(b1[2], b2[2])
      intersection == ih * iw
      box1_area == (b1[3] - b1[1]) * (b1[4] - b1[2])
      box2_area == (b2[3] - b2[1]) * (b2[4] - b2[2])
  IN << intersection, box1_area + box2_area - intersection >>

\* intersect_and_union: <<intersection, union>>, in the squared unit of the
\* corners (4 times the area of centre-form arguments)
intersect_and_union(box1, box2, yxyx) ==
  LET b1 == IF yxyx THEN box1 ELSE xcycwh_to_yxyx(box1)
      b2 == IF yxyx THEN box2 ELSE xcycwh_to_yxyx(box2)
      ih == Max(Min(b1[3], b2[3]) - Max(b1[1], b2[1]), 0)
      iw == Max(Min(b1[4], b2[4]) - Max(b1[2], b2[2]), 0)
      intersection == ih * iw
      box1_area == (b1[3] - b1[1]) * (b1[4] - b1[2])
      box2_area == (b2[3] - b2[1]) * (b2[4] - b2[2])
  IN << intersection, box1_area + box2_area - intersection >>

\* compute_iou: divide_no_nan(intersection, union) as a fraction <<num, den>>
compute_iou(box1, box2, yxyx) ==
  LET iu == intersect_and_union(box1, box2, yxyx)
  IN divide_no_nan(iu[1], iu[2])

\* comparisons and arithmetic of fractions with positive denominators
FracLess(p, q) == p[1] * q[2] < q[1] * p[2]
FracGeq(p, q) == p[1] * q[2] >= q[1] * p[2]
FracEq(p, q) == p[1] * q[2] = q[1] * p[2]
RECURSIVE GCD(_, _)
GCD(a, b) == IF b = 0 THEN a ELSE GCD(b, a % b)
\* the same fraction in lowest terms
Reduce(p) ==
  LET g == GCD(IF p[1] >= 0 THEN p[1] ELSE 0 - p[1], p[2])
  IN IF g = 0 THEN p ELSE << p[1] \div g, p[2] \div g >>
FracAdd(p, q) ==
  LET a == Reduce(p)
      b == Reduce(q)
  IN Reduce(<< a[1] * b[2] + b[1] * a[2], a[2] * b[2] >>)
FracSub(p, q) == FracAdd(p, << 0 - q[1], q[2] >>)
FracMul(p, q) ==
  LET a == Reduce(p)
      b == Reduce(q)
  IN Reduce(<< a[1] * b[1], a[2] * b[2] >>)
\* math_ops.divide_no_nan of two fractions
frac_divide_no_nan(p, q) ==
  LET a == Reduce(p)
      b == Reduce(q)
  IN Reduce(divide_no_nan(a[1] * b[2], a[2] * b[1]))

\* a variant of tf.clip_by_value that leaves the value as it is
clip_by_value_off(p, lo, hi) == p

\* tf.clip_by_value(p, clip_value_min=lo, clip_value_max=hi) of a fraction
clip_by_value(p, lo, hi) ==
  IF FracLess(p, <<lo, 1>>) THEN <<lo, 1>>
  ELSE IF FracLess(<<hi, 1>>, p) THEN <<hi, 1>>
  ELSE p

\* tf.reduce_prod without an axis: the product of every element
RECURSIVE reduce_prod(_)
reduce_prod(t) ==
  IF t = << >> THEN 1 ELSE t[1] * reduce_prod(Tail(t))

\* smallest_encompassing_box of a batch of pairs (box1[i], box2[i]); bca is
\* the product over the whole batch.  The result is in the form of the
\* arguments, doubled once more for centre-form arguments.
smallest_encompassing_box(box1, box2, yxyx) ==
  LET b1(i) == IF yxyx THEN box1[i] ELSE xcycwh_to_yxyx(box1[i])
      b2(i) == IF yxyx THEN box2[i] ELSE xcycwh_to_yxyx(box2[i])
      bcmi(i) == << Min(b1(i)[1], b2(i)[1]), Min(b1(i)[2], b2(i)[2]) >>
      bcma(i) == << Min(b1(i)[3], b2(i)[3]), Min(b1(i)[4], b2(i)[4]) >>
      bca == reduce_prod([i \in DOMAIN box1 |->
                            (bcma(i)[1] - bcmi(i)[1]) * (bcma(i)[2] - bcmi(i)[2])])
      box_c(i) == IF bca = 0 THEN <<0, 0, 0, 0>> ELSE bcmi(i) \o bcma(i)
  IN [i \in DOMAIN box1 |->
        IF yxyx THEN box_c(i) ELSE yxyx_to_xcycwh(box_c(i))]

\* compute_giou: c = tf.math.reduce_prod(cwch), the product over the batch.
\* Every width and height of cwch is a doubled (for centre-form arguments a
\* twice doubled) integer; c is given in the unit of the arguments.
giou_c(box1, box2, yxyx) ==
  LET boxc == smallest_encompassing_box(box1, box2, yxyx)
      cwch(i) == IF yxyx THEN yxyx_to_xcycwh(boxc[i]) ELSE boxc[i]
      doubled == IF yxyx THEN 2 ELSE 4
  IN reduce_prod([i \in DOMAIN boxc |->
                    (cwch(i)[3] \div doubled) * (cwch(i)[4] \div doubled)])

\* the factor by which the union of intersect_and_union exceeds the area in
\* the unit of the arguments
union_unit(yxyx) == IF yxyx THEN 1 ELSE 4

\* compute_giou: regularization = divide_no_nan(c - union, c) of pair i
giou_regularization(box1, box2, yxyx, i) ==
  LET union == intersect_and_union(box1[i], box2[i], yxyx)[2]
      c == giou_c(box1, box2, yxyx)
  IN divide_no_nan(c * union_unit(yxyx) - union, c * union_unit(yxyx))

\* compute_giou of a batch: (iou, giou)
compute_giou(box1, box2, yxyx) ==
  LET iou(i) == compute_iou(box1[i], box2[i], yxyx)
  IN [iou |-> [i \in DOMAIN box1 |-> iou(i)],
      giou |-> [i \in DOMAIN box1 |->
                  clip_by_value(
                    FracSub(iou(i), giou_regularization(box1, box2, yxyx, i)),
                    0 - 1, 1)]]

\* compute_diou: dist and diag_dist of one pair.  The corners are the centre
\* form doubled, so diag_dist is 4 times dist's unit.
diou_dist(box1, box2, yxyx) ==
  LET c1 == IF yxyx THEN yxyx_to_xcycwh(box1) ELSE box1
      c2 == IF yxyx THEN yxyx_to_xcycwh(box2) ELSE box2
  IN (c1[1] - c2[1]) * (c1[1] - c2[1]) + (c1[2] - c2[2]) * (c1[2] - c2[2])

diou_corners(box, yxyx) ==
  xcycwh_to_yxyx(IF yxyx THEN yxyx_to_xcycwh(box) ELSE box)

diou_diag_dist(box1, box2, yxyx) ==
  LET b1 == diou_corners(box1, yxyx)
      b2 == diou_corners(box2, yxyx)
      c_mins == << Min(b1[1], b2[1]), Min(b1[2], b2[2]) >>
      c_maxes == << Max(b1[3], b2[3]), Max(b1[4], b2[4]) >>
  IN (c_maxes[1] - c_mins[1]) * (c_maxes[1] - c_mins[1])
       + (c_maxes[2] - c_mins[2]) * (c_maxes[2] - c_mins[2])

\* compute_diou: regularization = divide_no_nan(dist, diag_dist)
diou_regularization(box1, box2, yxyx) ==
  divide_no_nan(4 * diou_dist(box1, box2, yxyx),
                diou_diag_dist(box1, box2, yxyx))

\* compute_diou of one pair: (iou, diou)
compute_diou(box1, box2, yxyx) ==
  LET iu == intersect_and_union(diou_corners(box1, yxyx),
                                diou_corners(box2, yxyx), TRUE)
      iou == divide_no_nan(iu[1], iu[2])
  IN [iou |-> iou,
      diou |-> clip_by_value(
                 FracSub(iou, diou_regularization(box1, box2, yxyx)),
                 0 - 1, 1)]

\* compute_ciou: the values v = 4 * arcterm / pi^2 can take.  The arc
\* tangents are not computed: v is 0 when the two guarded ratios w / h are
\* equal and some positive value below 1 otherwise.
PositiveV == { <<1, 4>>, <<3, 4>> }
ciou_v(box1, box2, yxyx) ==
  LET c1 == IF yxyx THEN yxyx_to_xcycwh(box1) ELSE box1
      c2 == IF yxyx THEN yxyx_to_xcycwh(box2) ELSE box2
  IN IF FracEq(divide_no_nan(c1[3], c1[4]), divide_no_nan(c2[3], c2[4]))
     THEN { <<0, 1>> }
     ELSE PositiveV

\* compute_ciou of one pair, v being the value of the aspect-ratio term
compute_ciou(box1, box2, yxyx, v) ==
  LET d == compute_diou(box1, box2, yxyx)
      a == frac_divide_no_nan(v, FracAdd(FracSub(<<1, 1>>, d.iou), v))
  IN [iou |-> d.iou,
      ciou |-> clip_by_value(FracSub(d.diou, FracMul(v, a)), 0 - 1, 1)]

\* aggregated_comparitive_iou for one batch element: boxes1 and boxes2.value
\* are sequences of corner-form boxes, boxes2.is_none stands for boxes2=None.
\* Both tensors are tiled k = |boxes1| times; the tiled shapes (|boxes1|, k)
\* and (k, |boxes2|) must broadcast; `box_ops` is not a name of the module,
\* so the plain-IoU branch raises.
aggregated_comparitive_iou(boxes1, boxes2, iou_type) ==
  LET k == Len(boxes1)
      cols2 == IF boxes2.is_none THEN k ELSE Len(boxes2.value)
      second(j) == IF boxes2.is_none THEN boxes1[j] ELSE boxes2.value[j]
      broadcasts == k = cols2 \/ k = 1 \/ cols2 = 1
      rows == k
      cols == Max(k, cols2)
      cells == { <<i, j>> : i \in 1..rows, j \in 1..cols }
      t1(c) == boxes1[c[1]]
      t2(c) == second(IF cols2 = 1 THEN 1 ELSE c[2])
      \* the cells in row-major order, as one batch
      order == [n \in 1..(rows * cols) |->
                  << ((n - 1) \div cols) + 1, ((n - 1) % cols) + 1 >>]
      at(c) == (c[1] - 1) * cols + c[2]
      giou == compute_giou([n \in DOMAIN order |-> t1(order[n])],
                           [n \in DOMAIN order |-> t2(order[n])], TRUE).giou
  IN IF ~broadcasts \/ iou_type \notin {0, 1}
     THEN [raised |-> TRUE, iou |-> << >>]
     ELSE [raised |-> FALSE,
           iou |-> [c \in cells |->
                      IF iou_type = 0
                      THEN compute_diou(t1(c), t2(c), TRUE).diou
                      ELSE giou[at(c)]]]

\* tf.cast(x, tf.int32) of the fraction n / d: truncation towards zero
CastInt(n, d) == IF n >= 0 THEN n \div d ELSE 0 - ((0 - n) \div d)

\* ------------------------------------------------------- anchor matching
\* get_best_anchor2: the ground-truth box and the anchor placed at the same
\* centre, in the common unit 1 / (Den * ImageW) by 1 / (Den * ImageH)
truth_comp(box) ==
  << box[1] * ImageW, box[2] * ImageH, box[3] * ImageW, box[4] * ImageH >>

anchor_comp(box, a) ==
  << box[1] * ImageW, box[2] * ImageH, Anchors[a][1] * Den, Anchors[a][2] * Den >>

\* iou_raw[a] of one box, a in 1..NumAnchors
iou_raw(box) ==
  [a \in 1..NumAnchors |-> compute_iou(truth_comp(box), anchor_comp(box, a), FALSE)]

\* tf.math.top_k(sorted=True): descending value, the lower index first on ties;
\* top_k_rank is the number of entries placed before entry a
top_k_rank(ious, a) ==
  Cardinality({ o \in DOMAIN ious :
                  \/ FracLess(ious[a], ious[o])
                  \/ (~FracLess(ious[o], ious[a]) /\ o < a) })

\* indexes[r] (1-based anchor number) and values[r], r in 1..k
top_k_indexes(ious) ==
  [r \in DOMAIN ious |-> CHOOSE a \in DOMAIN ious : top_k_rank(ious, a) = r - 1]

top_k_values(ious) ==
  [r \in DOMAIN ious |-> ious[top_k_indexes(ious)[r]]]

\* a strict comparison in place of >=
ind_mask_strict(value) == FracLess(<<IouThreshNum, IouThreshDen>>, value)

\* ind_mask = values >= iou_thresh
ind_mask(value) == FracGeq(value, <<IouThreshNum, IouThreshDen>>)

\* the threshold mask of get_best_anchor2: rank 0 is kept as is, a lower rank
\* becomes ((index + 1) * ind_mask) - 1; anchor indices are 0-based as in the code
mask_index(r, index, value) ==
  IF r = 1 THEN index
  ELSE IF ind_mask(value) THEN index ELSE 0 - 1

\* a sum in place of the product
true_prod_sum(box) == box[3] + box[4]

\* tf.where(true_prod > 0, iou_index, -1)
true_prod(box) == box[3] * box[4]

iou_index_box(box) ==
  LET ious == iou_raw(box)
      indexes == top_k_indexes(ious)
  IN [r \in 1..NumAnchors |->
        IF true_prod(box) > 0
        THEN mask_index(r, indexes[r] - 1, ious[indexes[r]])
        ELSE 0 - 1]

\* get_best_anchor2 on a list of boxes: <<iou_index, values>>
\* the matching is elementwise over the boxes: the per-box result
\* <<iou_index, values>>, tabulated once for the boxes of the model
MatchDomain == BoxSet \cup { <<0, 0, b[3], b[4]>> : b \in BoxSet }

best_anchor_table ==
  [box \in MatchDomain |->
     << iou_index_box(box), top_k_values(iou_raw(box)) >>]

get_best_anchor2(y) ==
  << [b \in DOMAIN y |-> best_anchor_table[y[b]][1]],
     [b \in DOMAIN y |-> best_anchor_table[y[b]][2]] >>

\* get_best_anchor: the centre is zeroed before matching
get_best_anchor(y) ==
  get_best_anchor2([b \in DOMAIN y |-> <<0, 0, y[b][3], y[b][4]>>])

\* clip_or_pad_to_fixed_size / _pad_max_instances along axis 0
_pad_max_instances(value, instances, pad_value) ==
  LET dim1 == Len(value)
      take == Min(instances, dim1)
      pad == Max(instances - dim1, 0)
  IN SubSeq(value, 1, take) \o [i \in 1..pad |-> pad_value]

\* ------------------------------------------------------------ grid encoder
\* the validity mask without the upper bound on the centre
_gen_utility_unbounded(box) ==
  LET eq0 == box[3] <= 0 /\ box[4] <= 0
      gtlb == box[1] < 0 \/ box[2] < 0
  IN ~(eq0 \/ gtlb)

\* the validity mask without the test for an empty box
_gen_utility_sized(box) ==
  LET gtlb == box[1] < 0 \/ box[2] < 0
      ltub == box[1] >= Den \/ box[2] >= Den
  IN ~(gtlb \/ ltub)

\* _gen_utility: the validity mask of one box
_gen_utility(box) ==
  LET eq0 == box[3] <= 0 /\ box[4] <= 0
      gtlb == box[1] < 0 \/ box[2] < 0
      ltub == box[1] >= Den \/ box[2] >= Den
  IN ~((eq0 \/ gtlb) \/ ltub)

\* the reverse of the row-major order
RowMajor_reversed(t, mask) == 0 - ((t[1] * NumAnchors + t[2]) * Len(mask) + t[3])

\* position of a viable <<obj_id, anchor, anchor_idx>> in tf.where's row-major
\* order over [num_boxes, num_anchors, len(mask)]
RowMajor(t, mask) == (t[1] * NumAnchors + t[2]) * Len(mask) + t[3]

RECURSIVE where(_, _)
where(S, mask) ==
  IF S = {} THEN << >>
  ELSE LET first == CHOOSE t \in S :
                      \A o \in S : RowMajor(t, mask) <= RowMajor(o, mask)
       IN << first >> \o where(S \ {first}, mask)

\* viable_primary comparing every rank with the mask
viable_primary_set_anyrank(anchors, mask, boxes) ==
  { t \in (0..(Len(boxes) - 1)) \X (0..(NumAnchors - 1)) \X (0..(Len(mask) - 1)) :
      /\ _gen_utility(boxes[t[1] + 1])
      /\ anchors[t[1] + 1][t[2] + 1] = mask[t[3] + 1] }

\* _get_num_reps: viable_primary compares only rank 0 with the mask
viable_primary_set(anchors, mask, boxes) ==
  { t \in (0..(Len(boxes) - 1)) \X {0} \X (0..(Len(mask) - 1)) :
      /\ _gen_utility(boxes[t[1] + 1])
      /\ anchors[t[1] + 1][1] = mask[t[3] + 1] }

\* the alternates without the -1 fill-in of rank 0
viable_alternate_set_nofill(anchors, mask, boxes) ==
  { t \in (0..(Len(boxes) - 1)) \X (0..(NumAnchors - 1)) \X (0..(Len(mask) - 1)) :
      /\ _gen_utility(boxes[t[1] + 1])
      /\ anchors[t[1] + 1][t[2] + 1] = mask[t[3] + 1] }

\* _get_num_reps: viable_alternate compares the ranks >= 1 (rank 0 is filled
\* with -1) with the mask
viable_alternate_set(anchors, mask, boxes) ==
  { t \in (0..(Len(boxes) - 1)) \X (0..(NumAnchors - 1)) \X (0..(Len(mask) - 1)) :
      /\ _gen_utility(boxes[t[1] + 1])
      /\ (IF t[2] = 0 THEN 0 - 1 ELSE anchors[t[1] + 1][t[2] + 1]) = mask[t[3] + 1] }

\* _get_num_reps: reps[b] = number of ranks whose anchor is in the mask
reps_of(anchors, mask) ==
  [b \in DOMAIN anchors |->
     Cardinality({ r \in 1..NumAnchors :
                     \E m \in DOMAIN mask : anchors[b][r] = mask[m] })]

\* size = width // 2**int(key)
GridSize(level) == ImageW \div (2 ^ level)

\* row and column exchanged
grid_idx_swapped(box, anchor_idx, size) ==
  << CastInt(box[1] * size, Den), CastInt(box[2] * size, Den), anchor_idx >>

\* write_grid: the grid index <<y_, x_, a_>> of one viable entry
grid_idx(box, anchor_idx, size) ==
  << CastInt(box[2] * size, Den), CastInt(box[1] * size, Den), anchor_idx >>

\* write_grid: sample = box ++ [1] ++ cls ++ iou ++ reps
sample_of(box, cls, iou, reps) ==
  [box |-> box, ind_mask |-> 1, class |-> cls, iou |-> iou, reps |-> reps]

\* a scatter that overwrites instead of adding
tensor_scatter_nd_update(indexs, samples, cell) ==
  IF \E i \in DOMAIN indexs : indexs[i] = cell THEN 1 ELSE 0

\* tf.tensor_scatter_nd_add(zeros, indexs, ind_mask): the value of one cell
RECURSIVE scatter_nd_add(_, _, _)
scatter_nd_add(indexs, samples, cell) ==
  IF indexs = << >> THEN 0
  ELSE (IF Head(indexs) = cell THEN Head(samples).ind_mask ELSE 0)
         + scatter_nd_add(Tail(indexs), Tail(samples), cell)

Cells(level) ==
  (0..(GridSize(level) - 1)) \X (0..(GridSize(level) - 1))
     \X (0..(Len(Masks[level]) - 1))

\* --------------------------------------------------------------- state
VARIABLES
  pc,               \* position of the YOLO pipeline
  raw,              \* decoded boxes and classes of the image
  use_tie_breaker,  \* Parser._use_tie_breaker
  level,            \* key of the scale being encoded
  y_true,           \* the labels dictionary handed to the grid encoder
  viable_primary, viable_alternate, num_reps,
  ind_val, ind_sample, num_written,
  val,              \* loop index of write_grid
  written,          \* history: the viable entry behind each written record
  out               \* indexs, samples and full returned by the encoder

yolo_vars == << pc, raw, use_tie_breaker, level, y_true, viable_primary,
                viable_alternate, num_reps, ind_val, ind_sample, num_written,
                val, written, out >>

\* the YOLO Parser object and its _build_grid calls
VARIABLES
  p_masks,    \* Parser._masks: level -> [kind, value]
  p_pc,       \* position inside / between the _build_grid calls
  p_keys,     \* keys the running loop has still to visit
  p_labels,   \* raw_true of the running call
  p_calls     \* number of _build_grid calls started

parser_vars == << p_masks, p_pc, p_keys, p_labels, p_calls >>

\* the CenterNetParser object and one _build_label call
VARIABLES
  cn_pc,      \* position of the CenterNet pipeline
  cn_arg,     \* arguments given to CenterNetParser(...)
  cn_self,    \* the fields __init__ sets
  cn_data,    \* decoded boxes and classes of the image
  cn_labels,  \* bbox, classes, num_detections after _build_label's padding
  tag_ind,    \* loop index of _build_heatmap_and_regressed_features
  cn_wh,      \* the locals width, height carried across iterations
  tl_heatmaps, br_heatmaps, ct_heatmaps,
  tl_offset, br_offset, ct_offset, size, box_mask, box_indices,
  cn_touched  \* history: the instance indices the loop has read / written at

cn_vars == << cn_pc, cn_arg, cn_self, cn_data, cn_labels, tag_ind, cn_wh,
              tl_heatmaps, br_heatmaps, ct_heatmaps, tl_offset, br_offset,
              ct_offset, size, box_mask, box_indices, cn_touched >>

\* one call of a padding helper
VARIABLES
  pad_pc,     \* "call" before the helper runs, "done" after
  pad_arg,    \* fn, field, value, instances, pad_value
  pad_ret     \* the tensor returned

pad_vars == << pad_pc, pad_arg, pad_ret >>

\* one call of a box_ops function
VARIABLES
  bx_pc,      \* "call" before the function runs, "done" after
  bx_arg,     \* the arguments of the call
  bx_ret      \* what the call returned

box_vars == << bx_pc, bx_arg, bx_ret >>

\* one call of YoloKmeans.run_kmeans
VARIABLES
  km_pc,       \* position inside run_kmeans
  km_self,     \* _boxes (with is_ndarray) and _k
  max_iter,    \* the argument of run_kmeans
  km_nan,      \* whether a NaN centroid makes the distance to it NaN
  clusters, last, num_iters,
  km_updates,  \* history: centroid updates performed
  km_ret       \* the clusters returned

km_vars == << km_pc, km_self, max_iter, km_nan, clusters, last, num_iters,
              km_updates, km_ret >>

\* one call of MiniBatchKMeansNN.__call__
VARIABLES
  mb_pc,              \* position inside __call__
  mb_arg,             \* the dataset length, mean_steps and epochs
  mb_j, mb_i,         \* the loop indices j (epoch) and i (batch)
  mb_clusters,        \* the local `clusters`: bound or not, and its value
  mean_clusters, cluster_sum, boxes_in_cluster, minibatch_counter, counter,
  mb_ret              \* what the call returned or raised

mb_vars == << mb_pc, mb_arg, mb_j, mb_i, mb_clusters, mean_clusters,
              cluster_sum, boxes_in_cluster, minibatch_counter, counter,
              mb_ret >>

\* one call of a constructor or of subdivison_adjustment
VARIABLES
  cfg_pc,     \* "call" before the call runs, "done" after
  cfg_arg,    \* the function called and its arguments
  cfg_ret     \* the object built, the params returned, or what was raised

cfg_vars == << cfg_pc, cfg_arg, cfg_ret >>

tool_vars == << pad_vars, box_vars, km_vars, mb_vars, cfg_vars >>

\* the variables other than those of one tool
not_pad_vars == << yolo_vars, parser_vars, cn_vars, box_vars, km_vars, mb_vars,
                  cfg_vars >>
not_box_vars == << yolo_vars, parser_vars, cn_vars, pad_vars, km_vars, mb_vars,
                  cfg_vars >>
not_km_vars == << yolo_vars, parser_vars, cn_vars, pad_vars, box_vars, mb_vars,
                 cfg_vars >>
not_mb_vars == << yolo_vars, parser_vars, cn_vars, pad_vars, box_vars, km_vars,
                 cfg_vars >>
not_cfg_vars == << yolo_vars, parser_vars, cn_vars, pad_vars, box_vars, km_vars,
                  mb_vars >>

vars == << yolo_vars, parser_vars, cn_vars, tool_vars >>

\* the states in which a component is not running
YoloIdle ==
  /\ pc = "off"
  /\ raw = [bbox |-> << >>, classes |-> << >>]
  /\ level = 1
  /\ y_true = [bbox |-> << >>, classes |-> << >>, best_anchors |-> << >>,
               best_iou_match |-> << >>]
  /\ viable_primary = << >> /\ viable_alternate = << >> /\ num_reps = << >>
  /\ ind_val = << >> /\ ind_sample = << >> /\ num_written = 0 /\ val = 0
  /\ written = << >>
  /\ out = [indexs |-> << >>, samples |-> << >>, full |-> << >>]

ParserIdle ==
  /\ p_masks = << >> /\ p_pc = "off" /\ p_keys = << >>
  /\ p_labels = << >> /\ p_calls = 0

CnIdle ==
  /\ cn_pc = "off" /\ cn_arg = << >> /\ cn_self = << >> /\ cn_data = << >>
  /\ cn_labels = << >> /\ tag_ind = 0 /\ cn_wh = <<0, 0>>
  /\ tl_heatmaps = << >> /\ br_heatmaps = << >> /\ ct_heatmaps = << >>
  /\ tl_offset = << >> /\ br_offset = << >> /\ ct_offset = << >>
  /\ size = << >> /\ box_mask = << >> /\ box_indices = << >>
  /\ cn_touched = {}

PadIdle == pad_pc = "off" /\ pad_arg = << >> /\ pad_ret = << >>

BoxIdle == bx_pc = "off" /\ bx_arg = << >> /\ bx_ret = << >>

KmIdle ==
  /\ km_pc = "off" /\ km_self = << >> /\ max_iter = 0 /\ km_nan = FALSE
  /\ clusters = << >> /\ last = << >> /\ num_iters = 0 /\ km_updates = 0
  /\ km_ret = << >>

MbIdle ==
  /\ mb_pc = "off" /\ mb_arg = << >> /\ mb_j = 0 /\ mb_i = 0
  /\ mb_clusters = << >> /\ mean_clusters = << >> /\ cluster_sum = << >>
  /\ boxes_in_cluster = << >> /\ minibatch_counter = 0
  /\ counter = 0 /\ mb_ret = << >>

CfgIdle == cfg_pc = "off" /\ cfg_arg = << >> /\ cfg_ret = << >>

ToolsIdle == PadIdle /\ BoxIdle /\ KmIdle /\ MbIdle /\ CfgIdle

\* every component but the tools is idle
CoreIdle == YoloIdle /\ ParserIdle /\ CnIdle /\ use_tie_breaker = FALSE

NoLabels == [bbox |-> << >>, classes |-> << >>, best_anchors |-> << >>,
             best_iou_match |-> << >>]
NoOut == [indexs |-> << >>, samples |-> << >>, full |-> << >>]

RawInputs ==
  UNION { { [bbox |-> b, classes |-> c] : b \in [1..n -> BoxSet],
                                          c \in [1..n -> ClassSet] }
          : n \in 0..MaxDets }

YoloInit ==
  /\ ParserIdle /\ CnIdle /\ ToolsIdle
  /\ pc = "parse"
  /\ raw \in RawInputs
  /\ use_tie_breaker \in BOOLEAN
  /\ level \in Levels
  /\ y_true = NoLabels
  /\ viable_primary = << >>
  /\ viable_alternate = << >>
  /\ num_reps = << >>
  /\ ind_val = << >>
  /\ ind_sample = << >>
  /\ num_written = 0
  /\ val = 0
  /\ written = << >>
  /\ out = NoOut

\* Parser._parse_eval_data: best_anchors = get_best_anchor(boxes, anchors, ...)
GetBestAnchor ==
  /\ pc = "parse"
  /\ LET best == get_best_anchor(raw.bbox)
     IN y_true' = [bbox |-> raw.bbox, classes |-> raw.classes,
                   best_anchors |-> best[1], best_iou_match |-> best[2]]
  /\ pc' = "pad"
  /\ UNCHANGED << raw, use_tie_breaker, level, viable_primary, viable_alternate,
                  num_reps, ind_val, ind_sample, num_written, val, written, out >>
  /\ UNCHANGED << parser_vars, cn_vars, tool_vars >>

\* Parser._parse_eval_data: padding of boxes, classes and best_anchors to
\* max_num_instances
ZeroRow == [r \in 1..NumAnchors |-> 0]
ZeroIou == [r \in 1..NumAnchors |-> <<0, 1>>]

PadInstances ==
  /\ pc = "pad"
  /\ y_true' =
       [bbox |-> _pad_max_instances(y_true.bbox, MaxNumInstances, <<0, 0, 0, 0>>),
        classes |-> _pad_max_instances(y_true.classes, MaxNumInstances, 0 - 1),
        best_anchors |->
          _pad_max_instances(y_true.best_anchors, MaxNumInstances, ZeroRow),
        best_iou_match |->
          _pad_max_instances(y_true.best_iou_match, MaxNumInstances, ZeroIou)]
  /\ pc' = "build"
  /\ UNCHANGED << raw, use_tie_breaker, level, viable_primary, viable_alternate,
                  num_reps, ind_val, ind_sample, num_written, val, written, out >>
  /\ UNCHANGED << parser_vars, cn_vars, tool_vars >>

\* half the number of boxes as the capacity
num_instances_halved == Len(y_true.bbox) \div 2

\* build_grided_gt_ind: num_instances = num_boxes = tf.shape(boxes)[-2]
num_instances == Len(y_true.bbox)

BuildBegin ==
  /\ pc = "build"
  /\ num_reps' = reps_of(y_true.best_anchors, Masks[level])
  /\ viable_primary' =
       where(viable_primary_set(y_true.best_anchors, Masks[level], y_true.bbox),
             Masks[level])
  /\ viable_alternate' =
       where(viable_alternate_set(y_true.best_anchors, Masks[level], y_true.bbox),
             Masks[level])
  /\ num_written' = 0
  /\ ind_val' = << >>
  /\ ind_sample' = << >>
  /\ val' = 0
  /\ pc' = "primary"
  /\ UNCHANGED << raw, use_tie_breaker, level, y_true, written, out >>
  /\ UNCHANGED << parser_vars, cn_vars, tool_vars >>

\* the capacity check off by one
capacity_reached_late(written_so_far, capacity) == written_so_far > capacity

\* write_grid: the capacity check `if num_written >= num_instances: break`
capacity_reached(written_so_far, capacity) == written_so_far >= capacity

\* the viable list the running write_grid call iterates over
viable == IF pc = "primary" THEN viable_primary ELSE viable_alternate

\* TensorArray.write(index, value) on an array grown by one entry at a time
TensorArrayWrite(ta, index, value) ==
  [i \in 1..Max(Len(ta), index + 1) |->
     IF i = index + 1 THEN value ELSE ta[i]]

\* write_grid: one iteration of the loop that writes a record
WriteGrid ==
  /\ pc \in {"primary", "alternate"}
  /\ val < Len(viable)
  /\ ~capacity_reached(num_written, num_instances)
  /\ LET idx == viable[val + 1]
         obj_id == idx[1]
         anchor == idx[2]
         anchor_idx == idx[3]
         box == y_true.bbox[obj_id + 1]
     IN /\ ind_val' = TensorArrayWrite(ind_val, num_written,
                        grid_idx(box, anchor_idx, GridSize(level)))
        /\ ind_sample' = TensorArrayWrite(ind_sample, num_written,
                           sample_of(box, y_true.classes[obj_id + 1],
                                     y_true.best_iou_match[obj_id + 1][anchor + 1],
                                     num_reps[obj_id + 1]))
        /\ written' = Append(written,
                        [obj_id |-> obj_id, anchor |-> anchor,
                         anchor_idx |-> anchor_idx, phase |-> pc,
                         at |-> num_written])
  /\ num_written' = num_written + 1
  /\ val' = val + 1
  /\ UNCHANGED << pc, raw, use_tie_breaker, level, y_true, viable_primary,
                  viable_alternate, num_reps, out >>
  /\ UNCHANGED << parser_vars, cn_vars, tool_vars >>

\* write_grid: the loop ends (list exhausted or capacity reached) and
\* build_grided_gt_ind goes on to the alternate call or to the stacking
WriteGridReturn ==
  /\ pc \in {"primary", "alternate"}
  /\ (val >= Len(viable) \/ capacity_reached(num_written, num_instances))
  /\ pc' = IF pc = "primary" /\ use_tie_breaker THEN "alternate" ELSE "stack"
  /\ val' = 0
  /\ UNCHANGED << raw, use_tie_breaker, level, y_true, viable_primary,
                  viable_alternate, num_reps, ind_val, ind_sample, num_written,
                  written, out >>
  /\ UNCHANGED << parser_vars, cn_vars, tool_vars >>

\* build_grided_gt_ind: stack, scatter into the objectness map, pad.  With
\* no record written the two TensorArrays are empty and have no element
\* shape of their own: tf.split(samples, [4, 1, 1, 1, 1]) then either sees the
\* inferred shape [0, 8] and the map stays all-zero, or fails on a tensor of
\* shape [0]
BuildEnd ==
  /\ pc = "stack"
  /\ \E outcome \in (IF num_written = 0 THEN {"stacked", "raise"} ELSE {"stacked"}) :
       IF outcome = "stacked"
       THEN /\ out' = [indexs |-> _pad_max_instances(ind_val, num_instances, <<0, 0, 0>>),
                       samples |-> _pad_max_instances(ind_sample, num_instances,
                                     [box |-> <<0, 0, 0, 0>>, ind_mask |-> 0,
                                      class |-> 0, iou |-> <<0, 1>>, reps |-> 0]),
                       full |-> [c \in Cells(level) |->
                                   scatter_nd_add(ind_val, ind_sample, c)]]
            /\ pc' = "done"
       ELSE /\ pc' = "error"
            /\ UNCHANGED out
  /\ UNCHANGED << raw, use_tie_breaker, level, y_true, viable_primary,
                  viable_alternate, num_reps, ind_val, ind_sample, num_written,
                  val, written >>
  /\ UNCHANGED << parser_vars, cn_vars, tool_vars >>

YoloNext ==
  \/ GetBestAnchor
  \/ PadInstances
  \/ BuildBegin
  \/ WriteGrid
  \/ WriteGridReturn
  \/ BuildEnd

Init == YoloInit
Next == YoloNext
Spec == Init /\ [][Next]_vars

\* ------------------------------------------------- Parser._build_grid
\* the grid encoder _build_grid calls: the records the two write_grid passes
\* keep (primary entries, then the alternate ones when the tie breaker is on,
\* cut at the instance capacity) scattered into the scale's objectness map
kept_entries(y, mask, tie) ==
  LET prim == where(viable_primary_set(y.best_anchors, mask, y.bbox), mask)
      alt == where(viable_alternate_set(y.best_anchors, mask, y.bbox), mask)
      all == IF tie THEN prim \o alt ELSE prim
  IN SubSeq(all, 1, Min(Len(all), Len(y.bbox)))

build_grided_gt(y, mask, grid_size, tie) ==
  LET kept == kept_entries(y, mask, tie)
  IN [c \in (0..(grid_size - 1)) \X (0..(grid_size - 1)) \X (0..(Len(mask) - 1)) |->
        Cardinality({ i \in DOMAIN kept :
                        grid_idx(y.bbox[kept[i][1] + 1], kept[i][3], grid_size) = c })]

\* the labels _parse_eval_data hands to _build_grid for one decoded image
labels_of(image) ==
  LET best == get_best_anchor(image.bbox)
  IN [bbox |-> _pad_max_instances(image.bbox, MaxNumInstances, <<0, 0, 0, 0>>),
      classes |-> _pad_max_instances(image.classes, MaxNumInstances, 0 - 1),
      best_anchors |-> _pad_max_instances(best[1], MaxNumInstances, ZeroRow),
      best_iou_match |-> _pad_max_instances(best[2], MaxNumInstances, ZeroIou)]

ParserImages ==
  UNION { { [bbox |-> b, classes |-> c] : b \in [1..n -> BoxSet],
                                          c \in [1..n -> ClassSet] }
          : n \in 0..MaxParserDets }

\* Parser.__init__: self._masks = {key: tf.convert_to_tensor(value)}
ParserInit ==
  /\ YoloIdle /\ CnIdle /\ ToolsIdle
  /\ use_tie_breaker \in BOOLEAN
  /\ p_masks = [l \in Levels |-> [kind |-> "mask", value |-> Masks[l]]]
  /\ p_pc = "idle"
  /\ p_keys = << >>
  /\ p_labels = << >>
  /\ p_calls = 0

\* the keys of the dictionary in insertion order
RECURSIVE keys(_)
keys(S) ==
  IF S = {} THEN << >>
  ELSE LET k == CHOOSE x \in S : \A o \in S : x <= o
       IN << k >> \o keys(S \ {k})

\* _build_grid is entered for one image: `mask = self._masks` binds the
\* parser's own dictionary, no copy is made
BuildGridCall ==
  /\ p_pc = "idle"
  /\ p_calls < MaxCalls
  /\ \E image \in ParserImages : p_labels' = labels_of(image)
  /\ p_keys' = keys(DOMAIN p_masks)
  /\ p_pc' = "loop"
  /\ p_calls' = p_calls + 1
  /\ UNCHANGED << p_masks >>
  /\ UNCHANGED << yolo_vars, cn_vars, tool_vars >>

\* one iteration of `for key in self._masks.keys()`: the grid is stored in
\* mask[key], which is self._masks[key]
BuildGridKey ==
  /\ p_pc = "loop"
  /\ p_keys # << >>
  /\ p_masks[Head(p_keys)].kind = "mask"
  /\ LET key == Head(p_keys)
     IN p_masks' = [p_masks EXCEPT ![key] =
                      [kind |-> "grid",
                       value |-> build_grided_gt(p_labels, p_masks[key].value,
                                                 GridSize(key), use_tie_breaker)]]
  /\ p_keys' = Tail(p_keys)
  /\ UNCHANGED << p_pc, p_labels, p_calls >>
  /\ UNCHANGED << yolo_vars, cn_vars, tool_vars >>

\* one iteration in which self._masks[key] no longer holds a mask but the
\* grid of an earlier call: the encoder is given a tensor of the wrong shape
\* and either fails or returns a meaningless grid
BuildGridKeyStale ==
  /\ p_pc = "loop"
  /\ p_keys # << >>
  /\ p_masks[Head(p_keys)].kind # "mask"
  /\ \E outcome \in {"raise", "garbage"} :
       IF outcome = "raise"
       THEN /\ p_pc' = "error"
            /\ UNCHANGED << p_masks, p_keys >>
       ELSE /\ p_masks' = [p_masks EXCEPT ![Head(p_keys)] =
                             [kind |-> "garbage", value |-> << >>]]
            /\ p_keys' = Tail(p_keys)
            /\ UNCHANGED p_pc
  /\ UNCHANGED << p_labels, p_calls >>
  /\ UNCHANGED << yolo_vars, cn_vars, tool_vars >>

\* `return mask`
BuildGridReturn ==
  /\ p_pc = "loop"
  /\ p_keys = << >>
  /\ p_pc' = "idle"
  /\ p_labels' = << >>
  /\ UNCHANGED << p_masks, p_keys, p_calls >>
  /\ UNCHANGED << yolo_vars, cn_vars, tool_vars >>

ParserNext ==
  \/ BuildGridCall
  \/ BuildGridKey
  \/ BuildGridKeyStale
  \/ BuildGridReturn

ParserSpec == ParserInit /\ [][ParserNext]_vars

\* ------------------------------------------------ CenterNet heatmap encoder
\* a heatmap entry is kept as the splats that reached it: `peak` counts the
\* contributions of value 1 (the centre of a Gaussian, or the single 1 of the
\* non-Gaussian mode), `tail` the contributions strictly between 0 and 1
ZeroHeat == [peak |-> 0, tail |-> 0]
HeatCells ==
  (0..(CnNumClasses - 1)) \X (0..(CnOutputDims - 1)) \X (0..(CnOutputDims - 1))
ZeroHeatmap == [c \in HeatCells |-> ZeroHeat]

Abs(x) == IF x >= 0 THEN x ELSE 0 - x

\* draw_gaussian(heatmap, [[class, x, y, radius]]): an isotropic Gaussian of
\* the given radius added around (y, x) on the class channel
draw_gaussian(heatmap, cls, x, y, radius) ==
  [c \in DOMAIN heatmap |->
     IF c[1] = cls /\ c[2] = y /\ c[3] = x
     THEN [heatmap[c] EXCEPT !.peak = @ + 1]
     ELSE IF c[1] = cls /\ Abs(c[2] - y) <= radius /\ Abs(c[3] - x) <= radius
          THEN [heatmap[c] EXCEPT !.tail = @ + 1]
          ELSE heatmap[c]]

\* gaussian_radius followed by floor and the clamp at 0: the radii the solve
\* may give for an object of the given scaled height and width
gaussian_radius(height, width) == 0..Min(MaxRadius, Min(height, width))

\* tf.tensor_scatter_nd_update(heatmap, [[class, y, x]], [1])
scatter_one(heatmap, cls, y, x) ==
  [c \in DOMAIN heatmap |->
     IF c = <<cls, y, x>> THEN [peak |-> 1, tail |-> 0] ELSE heatmap[c]]

\* tf.tensor_scatter_nd_update(t, [[tag_ind, 0], [tag_ind, 1]], [a, b])
scatter_row(t, row, value) == [t EXCEPT ![row + 1] = value]

\* ceil(n / d) for n >= 0
Ceil(n, d) == (n + d - 1) \div d

\* the decoded images: up to CnMaxNumInstances instances of any boxes and
\* classes, and images of CnMaxDets instances.  The rows beyond
\* max_num_instances are cut off by the padding and never read, so only their
\* number matters: each such image repeats its last row.
CnImages ==
  LET within(n) == { [bbox |-> b, classes |-> c] : b \in [1..n -> CnBoxSet],
                                                   c \in [1..n -> CnClassSet] }
  IN UNION { within(n) : n \in 0..CnMaxNumInstances }
       \cup { [bbox |-> i.bbox \o [k \in 1..(CnMaxDets - CnMaxNumInstances) |->
                                     i.bbox[CnMaxNumInstances]],
               classes |-> i.classes \o [k \in 1..(CnMaxDets - CnMaxNumInstances) |->
                                           i.classes[CnMaxNumInstances]]]
             : i \in within(CnMaxNumInstances) }

CnInit ==
  /\ YoloIdle /\ ParserIdle /\ use_tie_breaker = FALSE /\ ToolsIdle
  /\ cn_pc = "new"
  /\ cn_arg \in [use_gaussian_bump : BOOLEAN, gaussian_rad : {0 - 1, 1}]
  /\ cn_self = << >>
  /\ cn_data \in CnImages
  /\ cn_labels = << >>
  /\ tag_ind = 0
  /\ cn_wh = <<0, 0>>
  /\ tl_heatmaps = << >> /\ br_heatmaps = << >> /\ ct_heatmaps = << >>
  /\ tl_offset = << >> /\ br_offset = << >> /\ ct_offset = << >>
  /\ size = << >> /\ box_mask = << >> /\ box_indices = << >>
  /\ cn_touched = {}

\* a variant of the helper that keeps every input entry
pad_max_instances_untruncated(value, instances, pad_value) ==
  value \o [i \in 1..Max(instances - Len(value), 0) |-> pad_value]

\* centernet_input.pad_max_instances along axis 0
pad_max_instances(value, instances, pad_value) ==
  LET dim1 == Len(value)
      take == Min(instances, dim1)
      pad == Max(instances - dim1, 0)
  IN SubSeq(value, 1, take) \o [i \in 1..pad |-> pad_value]

\* what __init__ stores for the two Gaussian arguments
init_use_gaussian_bump(arg) == TRUE
init_gaussian_rad(arg) == 0 - 1

\* CenterNetParser.__init__
CnConstruct ==
  /\ cn_pc = "new"
  /\ cn_self' = [_max_num_instances |-> CnMaxNumInstances,
                 _num_classes |-> CnNumClasses,
                 _output_dims |-> CnOutputDims,
                 _use_gaussian_bump |-> init_use_gaussian_bump(cn_arg.use_gaussian_bump),
                 _gaussian_rad |-> init_gaussian_rad(cn_arg.gaussian_rad)]
  /\ cn_pc' = "ready"
  /\ UNCHANGED << cn_arg, cn_data, cn_labels, tag_ind, cn_wh, tl_heatmaps,
                  br_heatmaps, ct_heatmaps, tl_offset, br_offset, ct_offset,
                  size, box_mask, box_indices, cn_touched >>
  /\ UNCHANGED << yolo_vars, parser_vars, tool_vars >>

\* _build_label: the padding to max_num_instances, num_detections taken from
\* the unpadded classes; then the zero tensors of
\* _build_heatmap_and_regressed_features
CnBuildLabel ==
  /\ cn_pc = "ready"
  /\ cn_labels' =
       [bbox |-> pad_max_instances(cn_data.bbox, cn_self._max_num_instances,
                                   <<0, 0, 0, 0>>),
        classes |-> pad_max_instances(cn_data.classes,
                                      cn_self._max_num_instances, 0 - 1),
        num_detections |-> Len(cn_data.classes)]
  /\ tl_heatmaps' = ZeroHeatmap
  /\ br_heatmaps' = ZeroHeatmap
  /\ ct_heatmaps' = ZeroHeatmap
  /\ tl_offset' = [i \in 1..cn_self._max_num_instances |-> <<0, 0>>]
  /\ br_offset' = [i \in 1..cn_self._max_num_instances |-> <<0, 0>>]
  /\ ct_offset' = [i \in 1..cn_self._max_num_instances |-> <<0, 0>>]
  /\ size' = [i \in 1..cn_self._max_num_instances |-> <<0, 0>>]
  /\ box_mask' = [i \in 1..cn_self._max_num_instances |-> 0]
  /\ box_indices' = [i \in 1..cn_self._max_num_instances |-> <<0, 0>>]
  /\ cn_wh' = <<0, 0>>
  /\ tag_ind' = 0
  /\ cn_pc' = "loop"
  /\ UNCHANGED << cn_arg, cn_self, cn_data, cn_touched >>
  /\ UNCHANGED << yolo_vars, parser_vars, tool_vars >>

\* a loop over every row of the padded arrays
loop_bound_padded(labels) == Len(labels.bbox)

\* the loop bound: `for tag_ind in tf.range(num_objects)`
loop_bound(labels) == labels.num_detections

\* one iteration of the loop on a row that exists.  Scaled coordinates are
\* fractions: corners over CnImage, the centre over 2 * CnImage; an offset is
\* the numerator of the fractional part over that denominator
CnEncode ==
  /\ cn_pc = "loop"
  /\ tag_ind < loop_bound(cn_labels)
  /\ tag_ind < Len(cn_labels.bbox)
  /\ LET box == cn_labels.bbox[tag_ind + 1]
         obj_class == cn_labels.classes[tag_ind + 1] - 1
         nxtl == box[2] * CnOutputDims
         nytl == box[1] * CnOutputDims
         nxbr == box[4] * CnOutputDims
         nybr == box[3] * CnOutputDims
         nxct == (box[2] + box[4]) * CnOutputDims
         nyct == (box[1] + box[3]) * CnOutputDims
         xtl == nxtl \div CnImage
         ytl == nytl \div CnImage
         xbr == nxbr \div CnImage
         ybr == nybr \div CnImage
         xct == nxct \div (2 * CnImage)
         yct == nyct \div (2 * CnImage)
         width == Ceil((box[4] - box[2]) * CnOutputDims, CnImage)
         height == Ceil((box[3] - box[1]) * CnOutputDims, CnImage)
     IN /\ IF cn_self._use_gaussian_bump
           THEN /\ cn_wh' = <<width, height>>
                /\ \E radius \in (IF cn_self._gaussian_rad = 0 - 1
                                  THEN gaussian_radius(height, width)
                                  ELSE {cn_self._gaussian_rad}) :
                     /\ tl_heatmaps' = draw_gaussian(tl_heatmaps, obj_class, xtl, ytl, radius)
                     /\ br_heatmaps' = draw_gaussian(br_heatmaps, obj_class, xbr, ybr, radius)
                     /\ ct_heatmaps' = draw_gaussian(ct_heatmaps, obj_class, xct, yct, radius)
           ELSE /\ cn_wh' = cn_wh
                /\ tl_heatmaps' = scatter_one(tl_heatmaps, obj_class, ytl, xtl)
                /\ br_heatmaps' = scatter_one(br_heatmaps, obj_class, ybr, xbr)
                /\ ct_heatmaps' = scatter_one(ct_heatmaps, obj_class, yct, xct)
        /\ tl_offset' = scatter_row(tl_offset, tag_ind, <<nxtl % CnImage, nytl % CnImage>>)
        /\ br_offset' = scatter_row(br_offset, tag_ind, <<nxbr % CnImage, nybr % CnImage>>)
        /\ ct_offset' = scatter_row(ct_offset, tag_ind,
                          <<nxct % (2 * CnImage), nyct % (2 * CnImage)>>)
        /\ size' = scatter_row(size, tag_ind, cn_wh')
        /\ box_mask' = scatter_row(box_mask, tag_ind, 1)
        /\ box_indices' = scatter_row(box_indices, tag_ind, <<yct, xct>>)
  /\ cn_touched' = cn_touched \cup {tag_ind}
  /\ tag_ind' = tag_ind + 1
  /\ UNCHANGED << cn_pc, cn_arg, cn_self, cn_data, cn_labels >>
  /\ UNCHANGED << yolo_vars, parser_vars, tool_vars >>

\* one iteration of the loop on a row beyond the padded arrays:
\* boxes[tag_ind] and the scatter updates at tag_ind are out of range; the
\* op either fails or the access is dropped and the loop goes on
CnEncodeBeyond ==
  /\ cn_pc = "loop"
  /\ tag_ind < loop_bound(cn_labels)
  /\ tag_ind >= Len(cn_labels.bbox)
  /\ cn_touched' = cn_touched \cup {tag_ind}
  /\ \E outcome \in {"raise", "dropped"} :
       IF outcome = "raise"
       THEN cn_pc' = "error" /\ UNCHANGED tag_ind
       ELSE tag_ind' = tag_ind + 1 /\ UNCHANGED cn_pc
  /\ UNCHANGED << cn_arg, cn_self, cn_data, cn_labels, cn_wh, tl_heatmaps,
                  br_heatmaps, ct_heatmaps, tl_offset, br_offset, ct_offset,
                  size, box_mask, box_indices >>
  /\ UNCHANGED << yolo_vars, parser_vars, tool_vars >>

\* the loop is over: the labels dictionary is returned
CnReturn ==
  /\ cn_pc = "loop"
  /\ tag_ind >= loop_bound(cn_labels)
  /\ cn_pc' = "done"
  /\ UNCHANGED << cn_arg, cn_self, cn_data, cn_labels, tag_ind, cn_wh,
                  tl_heatmaps, br_heatmaps, ct_heatmaps, tl_offset, br_offset,
                  ct_offset, size, box_mask, box_indices, cn_touched >>
  /\ UNCHANGED << yolo_vars, parser_vars, tool_vars >>

CnNext ==
  \/ CnConstruct
  \/ CnBuildLabel
  \/ CnEncode
  \/ CnEncodeBeyond
  \/ CnReturn

HeatmapSpec == CnInit /\ [][CnNext]_vars

\* ------------------------------------------------------ padding helpers
\* the tensors _build_label pads, and the pad value it gives for each
LabelFields == {"bbox", "classes", "area", "is_crowd"}
label_pad_value(field) == IF field = "classes" THEN 0 - 1 ELSE 0

PadValues ==
  UNION { [1..n -> PadElems] : n \in 0..MaxPadLen }

PadArgs ==
  { [fn |-> "pad_max_instances", field |-> f, value |-> v, instances |-> c,
     pad_value |-> label_pad_value(f)]
      : f \in LabelFields, v \in PadValues, c \in 0..MaxPadCap }
  \cup
  { [fn |-> "_pad_max_instances", field |-> "none", value |-> v,
     instances |-> c, pad_value |-> pv]
      : v \in PadValues, c \in 0..MaxPadCap, pv \in {0, 0 - 1} }

PadInit ==
  /\ CoreIdle /\ BoxIdle /\ KmIdle /\ MbIdle /\ CfgIdle
  /\ pad_pc = "call"
  /\ pad_arg \in PadArgs
  /\ pad_ret = << >>

\* _build_label: pad_max_instances(boxes | classes | area | is_crowd, ...)
PadLabel ==
  /\ pad_pc = "call"
  /\ pad_arg.fn = "pad_max_instances"
  /\ pad_ret' = pad_max_instances(pad_arg.value, pad_arg.instances,
                                  pad_arg.pad_value)
  /\ pad_pc' = "done"
  /\ UNCHANGED pad_arg
  /\ UNCHANGED not_pad_vars

\* preprocessing_ops._pad_max_instances(value, instances, pad_value)
PadGrid ==
  /\ pad_pc = "call"
  /\ pad_arg.fn = "_pad_max_instances"
  /\ pad_ret' = _pad_max_instances(pad_arg.value, pad_arg.instances,
                                   pad_arg.pad_value)
  /\ pad_pc' = "done"
  /\ UNCHANGED pad_arg
  /\ UNCHANGED not_pad_vars

PadNext == PadLabel \/ PadGrid

PadSpec == PadInit /\ [][PadNext]_vars

\* --------------------------------------------------- box geometry calls
BoxesOf(yxyx) == IF yxyx THEN CornerBoxes ELSE CenterBoxes

\* the box that the pairs of a longer batch are built around
RefBox(yxyx) == IF yxyx THEN <<0, 0, 2, 2>> ELSE <<1, 1, 2, 2>>

\* the pairs that make up a batch of several pairs: a box with itself, and
\* the reference box with any box
BatchPairs(yxyx) ==
  { p \in BoxesOf(yxyx) \X BoxesOf(yxyx) : p[1] = p[2] \/ p[1] = RefBox(yxyx) }

\* batches of pairs of boxes of one form: every single pair, and the batches
\* of up to MaxBatch of the pairs above
PairBatches(yxyx) ==
  [1..1 -> BoxesOf(yxyx) \X BoxesOf(yxyx)]
    \cup UNION { [1..n -> BatchPairs(yxyx)] : n \in 2..MaxBatch }

\* the arguments of one call; the fields a function does not take are blank
BoxArg(fn, yxyx, box1, box2, v, is_none, iou_type) ==
  [fn |-> fn, yxyx |-> yxyx, box1 |-> box1, box2 |-> box2, v |-> v,
   is_none |-> is_none, iou_type |-> iou_type]

MetricArgs(fn) ==
  UNION { { BoxArg(fn, yxyx, [i \in DOMAIN pb |-> pb[i][1]],
                   [i \in DOMAIN pb |-> pb[i][2]], << >>, FALSE, 0) :
              pb \in PairBatches(yxyx) } : yxyx \in BOOLEAN }

\* the values of the aspect-ratio term that go with a batch of pairs
VBatches(arg) ==
  { v \in [DOMAIN arg.box1 -> PositiveV \cup { <<0, 1>> }] :
      \A i \in DOMAIN v : v[i] \in ciou_v(arg.box1[i], arg.box2[i], arg.yxyx) }

\* the functions of box_ops that are called
BoxFns == { "round_trip", "compute_iou", "compute_giou", "compute_diou",
            "compute_ciou", "aggregated_comparitive_iou" }

\* the arguments one function is called with
BoxArgs(fn) ==
  IF fn = "round_trip"
    THEN UNION { { BoxArg(fn, yxyx, <<b>>, << >>, << >>, FALSE, 0) :
                     b \in BoxesOf(yxyx) } : yxyx \in BOOLEAN }
  ELSE IF fn = "compute_ciou"
    THEN UNION { { BoxArg(fn, a.yxyx, a.box1, a.box2, v, FALSE, 0) :
                     v \in VBatches(a) } : a \in MetricArgs(fn) }
  ELSE IF fn = "aggregated_comparitive_iou"
    THEN { BoxArg(fn, TRUE, b1, b2, << >>, FALSE, t) :
             b1 \in UNION { [1..n -> AggBoxes] : n \in 1..MaxBoxes1 },
             b2 \in UNION { [1..n -> AggBoxes] : n \in 1..MaxBoxes2 },
             t \in {0, 1, 2} }
         \cup { BoxArg(fn, TRUE, b1, << >>, << >>, TRUE, t) :
                  b1 \in UNION { [1..n -> AggBoxes] : n \in 1..MaxBoxes1 },
                  t \in {0, 1, 2} }
  ELSE MetricArgs(fn)

BoxInit ==
  /\ CoreIdle /\ PadIdle /\ KmIdle /\ MbIdle /\ CfgIdle
  /\ bx_pc = "call"
  /\ \E fn \in BoxFns : bx_arg \in BoxArgs(fn)
  /\ bx_ret = << >>

BoxReturn(value) ==
  /\ bx_ret' = value
  /\ bx_pc' = "done"
  /\ UNCHANGED bx_arg
  /\ UNCHANGED not_box_vars

\* corner form -> centre form -> corner form, or the other way round; the
\* result is the argument in quarter units
CallRoundTrip ==
  /\ bx_pc = "call" /\ bx_arg.fn = "round_trip"
  /\ BoxReturn(IF bx_arg.yxyx
               THEN xcycwh_to_yxyx(yxyx_to_xcycwh(bx_arg.box1[1]))
               ELSE yxyx_to_xcycwh(xcycwh_to_yxyx(bx_arg.box1[1])))

CallComputeIou ==
  /\ bx_pc = "call" /\ bx_arg.fn = "compute_iou"
  /\ BoxReturn([i \in DOMAIN bx_arg.box1 |->
                  compute_iou(bx_arg.box1[i], bx_arg.box2[i], bx_arg.yxyx)])

CallComputeGiou ==
  /\ bx_pc = "call" /\ bx_arg.fn = "compute_giou"
  /\ BoxReturn(compute_giou(bx_arg.box1, bx_arg.box2, bx_arg.yxyx))

CallComputeDiou ==
  /\ bx_pc = "call" /\ bx_arg.fn = "compute_diou"
  /\ BoxReturn([i \in DOMAIN bx_arg.box1 |->
                  compute_diou(bx_arg.box1[i], bx_arg.box2[i], bx_arg.yxyx)])

CallComputeCiou ==
  /\ bx_pc = "call" /\ bx_arg.fn = "compute_ciou"
  /\ BoxReturn([i \in DOMAIN bx_arg.box1 |->
                  compute_ciou(bx_arg.box1[i], bx_arg.box2[i], bx_arg.yxyx,
                               bx_arg.v[i])])

CallAggregated ==
  /\ bx_pc = "call" /\ bx_arg.fn = "aggregated_comparitive_iou"
  /\ BoxReturn(aggregated_comparitive_iou(
                 bx_arg.box1,
                 [is_none |-> bx_arg.is_none, value |-> bx_arg.box2],
                 bx_arg.iou_type))

BoxNext ==
  \/ CallRoundTrip
  \/ CallComputeIou
  \/ CallComputeGiou
  \/ CallComputeDiou
  \/ CallComputeCiou
  \/ CallAggregated

BoxSpec == BoxInit /\ [][BoxNext]_vars

\* ------------------------------------------------- YoloKmeans.run_kmeans
\* A corpus row is <<width, height>>.  A centroid is <<sum_w, sum_h, count>>,
\* the mean of `count` corpus rows; count = 0 is the mean of no row, NaN.
IsNaN(c) == c[3] = 0

\* label 0 .. k-1 of a cluster, as numpy numbers them
Labels(k) == 0..(k - 1)

\* rows in lexicographic order
RowLeq(a, b) == a[1] < b[1] \/ (a[1] = b[1] /\ a[2] <= b[2])

\* the corpora: arrays of up to MaxBoxNum rows.  run_kmeans treats the rows
\* alike (the initial centroids are drawn from any positions), so each corpus
\* is listed once, rows in order.
KmCorpora ==
  { c \in UNION { [1..n -> KmBoxSet] : n \in 0..MaxBoxNum } :
      \A i \in 1..(Len(c) - 1) : RowLeq(c[i], c[i + 1]) }

\* iou_utils.compute_iou of two boxes <<0, 0, w, h>> that share a corner:
\* intersection over union as a fraction <<num, den>>, 0 when the union is 0
iou_utils_compute_iou(box1, box2) == compute_iou(box1, box2, TRUE)

\* YoloKmeans.iou: the box_num x k matrix of IoUs of the corpus rows and the
\* centroids, both laid out as <<0, 0, w, h>>.  An entry with denominator 0
\* is NaN; nan_dist says whether a NaN centroid yields one.
YoloKmeans_iou(boxes, cs, nan_dist) ==
  [b \in DOMAIN boxes |->
    [j \in DOMAIN cs |->
      IF IsNaN(cs[j])
        THEN (IF nan_dist THEN <<0, 0>> ELSE <<0, 1>>)
        ELSE iou_utils_compute_iou(
               <<0, 0, boxes[b][1] * cs[j][3], boxes[b][2] * cs[j][3]>>,
               <<0, 0, cs[j][1], cs[j][2]>>)]]

\* the label np.argmin picks in one row of IoUs: the first NaN entry if there
\* is one, else the first entry of largest IoU (smallest 1 - IoU)
first_min(row) ==
  LET nans == { j \in DOMAIN row : row[j][2] = 0 }
      first(S) == CHOOSE j \in S : \A j2 \in S : j <= j2
      best == { j \in DOMAIN row : \A j2 \in DOMAIN row : FracGeq(row[j], row[j2]) }
  IN (IF nans # {} THEN first(nans) ELSE first(best)) - 1

\* np.argmin(1 - row), the row evaluated once
argmin(row) == CHOOSE a \in { first_min(r) : r \in {row} } : TRUE

\* curr = np.argmin(dists, axis=-1), the matrix evaluated once
Assign(boxes, cs, nan_dist) ==
  CHOOSE curr \in { [b \in DOMAIN boxes |-> argmin(m[b])] :
                      m \in { YoloKmeans_iou(boxes, cs, nan_dist) } } : TRUE

\* the sum of column c of the rows of boxes whose index is in S
RECURSIVE SumRows(_, _, _)
SumRows(boxes, S, c) ==
  IF S = {} THEN 0
  ELSE boxes[CHOOSE b \in S : TRUE][c]
         + SumRows(boxes, S \ {CHOOSE b \in S : TRUE}, c)

\* np.mean(self._boxes[curr == i], axis=0)
mean_of(boxes, curr, i) ==
  LET S == { b \in DOMAIN boxes : curr[b] = i }
  IN << SumRows(boxes, S, 1), SumRows(boxes, S, 2), Cardinality(S) >>

\* key(x) < key(y) for the sort key x[0] * x[1]; false when either is NaN
AreaLess(x, y) ==
  /\ ~IsNaN(x) /\ ~IsNaN(y)
  /\ x[1] * x[2] * y[3] * y[3] < y[1] * y[2] * x[3] * x[3]

\* a variant of the final sort that returns the centroids in the order held
unsorted(cs) == { cs }

\* sorted(clusters, key=lambda x: x[0] * x[1]): the stable ascending order;
\* with a NaN key the comparisons give no order and any arrangement is taken
\* as possible
sorted(cs) ==
  LET n == Len(cs)
  IN IF \E i \in 1..n : IsNaN(cs[i])
       THEN { [i \in 1..n |-> cs[p[i]]] : p \in Permutations(1..n) }
       ELSE { [i \in 1..n |-> cs[p[i]]] :
                p \in { q \in Permutations(1..n) :
                          \A i, j \in 1..n :
                            i < j => /\ ~AreaLess(cs[q[j]], cs[q[i]])
                                     /\ (~AreaLess(cs[q[i]], cs[q[j]]) => q[i] < q[j]) } }

\* a variant of the loop condition without the iteration cap
while_condition_uncapped(n, m) == TRUE

\* while num_iters < max_iter
while_condition(n, m) == n < m

KmInit ==
  /\ CoreIdle /\ PadIdle /\ BoxIdle /\ MbIdle /\ CfgIdle
  /\ km_pc = "call"
  /\ \E is_ndarray \in BOOLEAN, boxes \in KmCorpora, k \in 1..MaxK,
        with_color \in BOOLEAN :
       /\ ~is_ndarray => boxes = << >>
       /\ km_self = [is_ndarray |-> is_ndarray, _boxes |-> boxes, _k |-> k,
                     _with_color |-> with_color]
  /\ max_iter \in 0..MaxIter
  /\ km_nan \in BOOLEAN
  /\ clusters = << >> /\ last = << >> /\ num_iters = 0 /\ km_updates = 0
  /\ km_ret = << >>

\* the isinstance check failed: raise Exception('Box Not found')
KmNoBoxes ==
  /\ km_pc = "call"
  /\ ~km_self.is_ndarray
  /\ km_pc' = "error"
  /\ km_ret' = "Exception"
  /\ UNCHANGED << km_self, max_iter, km_nan, clusters, last, num_iters, km_updates >>
  /\ UNCHANGED not_km_vars

\* np.random.choice(box_num, k, replace=False) with k > box_num raises
KmChoiceFails ==
  /\ km_pc = "call"
  /\ km_self.is_ndarray
  /\ km_self._k > Len(km_self._boxes)
  /\ km_pc' = "error"
  /\ km_ret' = "ValueError"
  /\ UNCHANGED << km_self, max_iter, km_nan, clusters, last, num_iters, km_updates >>
  /\ UNCHANGED not_km_vars

\* the initial centroids: k distinct rows of the corpus, drawn at random
KmStart ==
  /\ km_pc = "call"
  /\ km_self.is_ndarray
  /\ km_self._k <= Len(km_self._boxes)
  /\ \E choice \in [1..km_self._k -> 1..Len(km_self._boxes)] :
       /\ \A i, j \in 1..km_self._k : i # j => choice[i] # choice[j]
       /\ clusters' = [i \in 1..km_self._k |->
                         << km_self._boxes[choice[i]][1],
                            km_self._boxes[choice[i]][2], 1 >>]
  /\ last' = [b \in 1..Len(km_self._boxes) |-> 0]
  /\ num_iters' = 0
  /\ km_pc' = "loop"
  /\ UNCHANGED << km_self, max_iter, km_nan, km_updates, km_ret >>
  /\ UNCHANGED not_km_vars

\* one pass of the loop body with the assignment changed: update the centroids
KmIterate ==
  /\ km_pc = "loop"
  /\ while_condition(num_iters, max_iter)
  /\ \E curr \in { Assign(km_self._boxes, clusters, km_nan) } :
       /\ curr # last
       /\ clusters' = [i \in 1..km_self._k |->
                         mean_of(km_self._boxes, curr, i - 1)]
       /\ last' = curr
  /\ num_iters' = num_iters + 1
  /\ km_updates' = km_updates + 1
  /\ UNCHANGED << km_pc, km_self, max_iter, km_nan, km_ret >>
  /\ UNCHANGED not_km_vars

\* one pass of the loop body with the assignment unchanged: break
KmBreak ==
  /\ km_pc = "loop"
  /\ while_condition(num_iters, max_iter)
  /\ Assign(km_self._boxes, clusters, km_nan) = last
  /\ km_pc' = "sort"
  /\ UNCHANGED << km_self, max_iter, km_nan, clusters, last, num_iters,
                  km_updates, km_ret >>
  /\ UNCHANGED not_km_vars

\* the loop condition fails
KmExit ==
  /\ km_pc = "loop"
  /\ ~while_condition(num_iters, max_iter)
  /\ km_pc' = "sort"
  /\ UNCHANGED << km_self, max_iter, km_nan, clusters, last, num_iters,
                  km_updates, km_ret >>
  /\ UNCHANGED not_km_vars

\* sort the centroids by area and return them, with the assignment if asked
KmReturn ==
  /\ km_pc = "sort"
  /\ \E cs \in sorted(clusters) :
       /\ clusters' = cs
       /\ km_ret' = [clusters |-> cs,
                     map |-> IF km_self._with_color THEN last ELSE << >>]
  /\ km_pc' = "done"
  /\ UNCHANGED << km_self, max_iter, km_nan, last, num_iters, km_updates >>
  /\ UNCHANGED not_km_vars

KmNext ==
  \/ KmNoBoxes
  \/ KmChoiceFails
  \/ KmStart
  \/ KmIterate
  \/ KmBreak
  \/ KmExit
  \/ KmReturn

KmeansSpec == KmInit /\ [][KmNext]_vars

\* run_kmeans runs on one thread that is always scheduled: a step that can be
\* taken is taken
KmeansFairSpec == KmInit /\ [][KmNext]_vars /\ WF_vars(KmNext)

\* ------------------------------------------- MiniBatchKMeansNN.__call__
\* A centroid is <<w, h, d>>, the pair (w / d, h / d); d = 0 is NaN.

\* box_utils._yxyx_to_xcycwh: the centre form of a corner-form box (every
\* coordinate doubled, as yxyx_to_xcycwh gives it)
_yxyx_to_xcycwh(box) == yxyx_to_xcycwh(box)

\* a centroid with its three numbers divided by their common divisor
Lowest(c) ==
  LET g == GCD(GCD(c[1], c[2]), c[3])
  IN IF g = 0 THEN <<0, 0, 0>> ELSE << c[1] \div g, c[2] \div g, c[3] \div g >>

\* mean_clusters += clusters, for one centroid
AddCentroid(a, b) ==
  Lowest(<< a[1] * b[3] + b[1] * a[3], a[2] * b[3] + b[2] * a[3], a[3] * b[3] >>)

\* MiniBatchKMeansNN.compute_iou: the k x n matrix of the IoUs of the
\* centroids and the widths and heights of the sample, sample[..., 2:]
MiniBatch_compute_iou(sample, cs) ==
  [i \in DOMAIN cs |->
    [b \in DOMAIN sample |->
      IF IsNaN(cs[i]) THEN <<0, 0>>
      ELSE iou_utils_compute_iou(
             <<0, 0, sample[b][3] * cs[i][3], sample[b][4] * cs[i][3]>>,
             <<0, 0, cs[i][1], cs[i][2]>>)]]

\* tf.math.argmax(iou, axis=0) for one box: the first centroid of largest
\* IoU; with a NaN entry in the column any label can come out
argmax(iou, b) ==
  IF \E i \in DOMAIN iou : iou[i][b][2] = 0
    THEN { i - 1 : i \in DOMAIN iou }
    ELSE { (CHOOSE i \in DOMAIN iou :
              /\ \A i2 \in DOMAIN iou : FracGeq(iou[i][b], iou[i2][b])
              /\ \A i2 \in DOMAIN iou :
                   i2 < i => FracLess(iou[i2][b], iou[i][b])) - 1 }

\* train_step: the accumulators after one batch, for the labels `indexes`
train_step(boxes, indexes, sums, lens) ==
  LET sample == [b \in DOMAIN boxes |-> _yxyx_to_xcycwh(boxes[b])]
      members(i) == { b \in DOMAIN sample : indexes[b] = i - 1 }
  IN [cluster_sum |->
        [i \in DOMAIN sums |->
           << sums[i][1] + SumRows(sample, members(i), 3),
              sums[i][2] + SumRows(sample, members(i), 4) >>],
      boxes_in_cluster |->
        [i \in DOMAIN lens |-> lens[i] + Cardinality(members(i))]]

\* update_step: cluster_sum / boxes_in_cluster, NaN for an empty cluster
update_step(sums, lens) ==
  [i \in DOMAIN sums |-> Lowest(<< sums[i][1], sums[i][2], lens[i] >>)]

\* the datasets: up to MaxBatches batches
MbDatasets == UNION { [1..n -> MbBatchSet] : n \in 0..MaxBatches }

MbInit ==
  /\ CoreIdle /\ PadIdle /\ BoxIdle /\ KmIdle /\ CfgIdle
  /\ mb_pc = "epoch"
  /\ \E k \in 1..MbMaxK, dataset \in MbDatasets, mean_steps \in 0..MaxMeanSteps,
        epochs \in 0..MaxEpochs :
       /\ mb_arg = [_k |-> k, dataset |-> dataset, mean_steps |-> mean_steps,
                    epochs |-> epochs]
       /\ mean_clusters \in [1..k -> MbUniform]
       /\ cluster_sum = [i \in 1..k |-> <<0, 0>>]
       /\ boxes_in_cluster = [i \in 1..k |-> 0]
  /\ minibatch_counter = 1
  /\ counter = 1
  /\ mb_j = 0 /\ mb_i = 0
  /\ mb_clusters = [bound |-> FALSE, value |-> << >>]
  /\ mb_ret = << >>

\* squeeze, numpy and sort of the local `clusters`, in the try block and in
\* the handler alike; reading the local while it is unbound raises
MbFinish(interrupted) ==
  IF mb_clusters.bound
    THEN /\ mb_pc' = "done"
         /\ \E cs \in sorted(mb_clusters.value) :
              mb_ret' = [interrupted |-> interrupted, raised |-> "none",
                         clusters |-> cs]
    ELSE /\ mb_pc' = "error"
         /\ mb_ret' = [interrupted |-> interrupted,
                       raised |-> "UnboundLocalError", clusters |-> << >>]

\* for j in range(epochs): the next epoch starts with clusters = mean_clusters
MbEpochBegin ==
  /\ mb_pc = "epoch"
  /\ mb_j < mb_arg.epochs
  /\ mb_clusters' = [bound |-> TRUE, value |-> mean_clusters]
  /\ mb_i' = 0
  /\ mb_pc' = "batch"
  /\ UNCHANGED << mb_arg, mb_j, mean_clusters, cluster_sum, boxes_in_cluster,
                  minibatch_counter, counter, mb_ret >>
  /\ UNCHANGED not_mb_vars

\* one batch of the dataset: train_step, and update_step when
\* minibatch_counter wraps to 0
MbBatch ==
  /\ mb_pc = "batch"
  /\ mb_i < Len(mb_arg.dataset)
  /\ LET boxes == mb_arg.dataset[mb_i + 1]
         wrapped == (minibatch_counter + 1) % (mb_arg.mean_steps + 1)
     IN /\ minibatch_counter' = wrapped
        /\ \E iou \in { MiniBatch_compute_iou(
                          [b \in DOMAIN boxes |-> _yxyx_to_xcycwh(boxes[b])],
                          mb_clusters.value) } :
           \E indexes \in [DOMAIN boxes -> 0..(mb_arg._k - 1)] :
             /\ \A b \in DOMAIN boxes : indexes[b] \in argmax(iou, b)
             /\ \E acc \in { train_step(boxes, indexes, cluster_sum,
                                        boxes_in_cluster) } :
                  IF wrapped = 0
                    THEN \E cs \in { update_step(acc.cluster_sum,
                                                 acc.boxes_in_cluster) } :
                           /\ mb_clusters' = [bound |-> TRUE, value |-> cs]
                           /\ cluster_sum' = [i \in 1..mb_arg._k |-> <<0, 0>>]
                           /\ boxes_in_cluster' = [i \in 1..mb_arg._k |-> 0]
                           /\ mean_clusters' =
                                [i \in 1..mb_arg._k |->
                                   AddCentroid(mean_clusters[i], cs[i])]
                           /\ counter' = counter + 1
                    ELSE /\ cluster_sum' = acc.cluster_sum
                         /\ boxes_in_cluster' = acc.boxes_in_cluster
                         /\ UNCHANGED << mb_clusters, mean_clusters, counter >>
  /\ mb_i' = mb_i + 1
  /\ UNCHANGED << mb_pc, mb_arg, mb_j, mb_ret >>
  /\ UNCHANGED not_mb_vars

\* the dataset is exhausted: mean_clusters / counter, counter = 1, next epoch
MbEpochEnd ==
  /\ mb_pc = "batch"
  /\ mb_i = Len(mb_arg.dataset)
  /\ mean_clusters' =
       [i \in 1..mb_arg._k |->
          Lowest(<< mean_clusters[i][1], mean_clusters[i][2],
                    mean_clusters[i][3] * counter >>)]
  /\ counter' = 1
  /\ mb_j' = mb_j + 1
  /\ mb_pc' = "epoch"
  /\ UNCHANGED << mb_arg, mb_i, mb_clusters, cluster_sum, boxes_in_cluster,
                  minibatch_counter, mb_ret >>
  /\ UNCHANGED not_mb_vars

\* the epochs are over: sort the clusters and return them
MbReturn ==
  /\ mb_pc = "epoch"
  /\ mb_j = mb_arg.epochs
  /\ MbFinish(FALSE)
  /\ UNCHANGED << mb_arg, mb_j, mb_i, mb_clusters, mean_clusters, cluster_sum,
                  boxes_in_cluster, minibatch_counter, counter >>
  /\ UNCHANGED not_mb_vars

\* KeyboardInterrupt delivered inside the epoch/batch loop, at the head of an
\* epoch (before clusters = mean_clusters) or between two batches: the
\* handler sorts the local `clusters` and the call returns it
MbInterrupt ==
  /\ \/ mb_pc = "epoch" /\ mb_j < mb_arg.epochs
     \/ mb_pc = "batch"
  /\ MbFinish(TRUE)
  /\ UNCHANGED << mb_arg, mb_j, mb_i, mb_clusters, mean_clusters, cluster_sum,
                  boxes_in_cluster, minibatch_counter, counter >>
  /\ UNCHANGED not_mb_vars

MbNext ==
  \/ MbEpochBegin
  \/ MbBatch
  \/ MbEpochEnd
  \/ MbReturn
  \/ MbInterrupt

MiniBatchSpec == MbInit /\ [][MbNext]_vars

\* -------------------------------------- constructors and train.py set-up
\* the dtype branch of Parser.__init__ and CenterNetParser.__init__: the
\* tf dtype stored, or "raise" for the final else branch
_dtype_defaulting(dtype) ==
  IF dtype = "float16" THEN "tf.float16"
  ELSE IF dtype = "bfloat16" THEN "tf.bfloat16"
  ELSE "tf.float32"

_dtype(dtype) ==
  IF dtype = "float16" THEN "tf.float16"
  ELSE IF dtype = "bfloat16" THEN "tf.bfloat16"
  ELSE IF dtype = "float32" THEN "tf.float32"
  ELSE "raise"

\* Parser.__init__: (image // net_down_scale) * net_down_scale
scale_to_multiple(image, net_down_scale) ==
  (image \div net_down_scale) * net_down_scale

\* Parser.__init__ of the YOLO parser.  masks=None (the default) fails at
\* masks.items(); an unsupported dtype reaches the final raise.
Parser_init(a) ==
  LET net_down_scale == 2 ^ a.max_level
      image_w == scale_to_multiple(a.image_w, net_down_scale)
  IN IF a.masks_is_none THEN [raised |-> "AttributeError"]
     ELSE IF _dtype(a.dtype) = "raise" THEN [raised |-> "Exception"]
     ELSE [raised |-> "",
           _net_down_scale |-> net_down_scale,
           _image_w |-> image_w,
           _image_h |-> IF a.image_h_is_none THEN image_w
                        ELSE scale_to_multiple(a.image_h, net_down_scale),
           _masks |-> "tensors",
           _dtype |-> _dtype(a.dtype)]

\* CenterNetParser.__init__
CenterNetParser_init(a) ==
  IF _dtype(a.dtype) = "raise" THEN [raised |-> "Exception"]
  ELSE [raised |-> "",
        _use_gaussian_bump |-> init_use_gaussian_bump(a.use_gaussian_bump),
        _gaussian_rad |-> init_gaussian_rad(a.gaussian_rad),
        _dtype |-> _dtype(a.dtype)]

\* an interval rounded up to a multiple of the subdivisions
adjusted_interval_up(interval, subdivisons) ==
  ((interval + subdivisons - 1) \div subdivisons) * subdivisons

\* subdivison_adjustment: (interval // subdivisons) * subdivisons
adjusted_interval(interval, subdivisons) ==
  (interval \div subdivisons) * subdivisons

\* subdivison_adjustment: the guard of the adjustment
adjustment_needed(params) ==
  params.has_subdivisions /\ params.subdivisions > 1

\* subdivison_adjustment(params): the params returned
subdivison_adjustment(params) ==
  IF ~adjustment_needed(params) THEN params
  ELSE
    LET subdivisons == params.subdivisions
        sgd == params.optimizer_type = "sgd"
    IN [params EXCEPT
          !.global_batch_size = @ \div subdivisons,
          !.train_steps = @ * subdivisons,
          !.validation_interval = adjusted_interval(@, subdivisons),
          !.checkpoint_interval = adjusted_interval(@, subdivisons),
          !.steps_per_loop = adjusted_interval(@, subdivisons),
          !.summary_interval = adjusted_interval(@, subdivisons),
          !.boundaries = IF params.learning_rate_type = "stepwise"
                           THEN [i \in DOMAIN @ |-> subdivisons * @[i]]
                           ELSE @,
          !.decay_steps = IF params.learning_rate_type = "polynomial"
                            THEN @ * subdivisons ELSE @,
          !.optimizer_type = IF sgd THEN "sgd_accum" ELSE @,
          !.accumulation_steps = IF sgd THEN subdivisons ELSE @,
          !.sgd_accum_momentum = IF sgd THEN params.sgd_momentum ELSE @,
          !.sgd_accum_decay = IF sgd THEN params.sgd_decay ELSE @,
          !.warmup_steps = IF params.warmup_type = "linear"
                             THEN @ * subdivisons ELSE @]

\* the arguments of the three calls
ParserArgs ==
  { a \in [fn : {"Parser"}, image_w : 0..MaxImage, image_h_is_none : BOOLEAN,
           image_h : 0..MaxImage, max_level : 0..MaxLevel,
           masks_is_none : BOOLEAN, dtype : DtypeSelectors] :
      a.image_h_is_none => a.image_h = 0 }

CenterNetParserArgs ==
  [fn : {"CenterNetParser"}, use_gaussian_bump : BOOLEAN,
   gaussian_rad : {0 - 1, 1}, dtype : DtypeSelectors]

\* params of an experiment; a model without the subdivisions attribute
\* carries subdivisions = 0 here
ParamsArgs ==
  { a \in [fn : {"subdivison_adjustment"},
           has_subdivisions : BOOLEAN, subdivisions : 0..MaxSubdivisions,
           global_batch_size : StepValues, train_steps : StepValues,
           validation_interval : StepValues, checkpoint_interval : StepValues,
           steps_per_loop : StepValues, summary_interval : StepValues,
           learning_rate_type : {"stepwise", "polynomial", "cosine"},
           boundaries : { <<1, MaxSteps>> }, decay_steps : { MaxSteps },
           optimizer_type : {"sgd", "adam"}, accumulation_steps : { 1 },
           sgd_momentum : { 9 }, sgd_decay : { 5 },
           sgd_accum_momentum : { 0 }, sgd_accum_decay : { 0 },
           warmup_type : {"linear", "none"}, warmup_steps : { MaxSteps }] :
      ~a.has_subdivisions => a.subdivisions = 0 }

CfgInit ==
  /\ CoreIdle /\ PadIdle /\ BoxIdle /\ KmIdle /\ MbIdle
  /\ cfg_pc = "call"
  /\ cfg_arg \in ParserArgs \cup CenterNetParserArgs \cup ParamsArgs
  /\ cfg_ret = << >>

\* parser = Parser(...) of the YOLO data loader
CallParserInit ==
  /\ cfg_pc = "call"
  /\ cfg_arg.fn = "Parser"
  /\ cfg_ret' = Parser_init(cfg_arg)
  /\ cfg_pc' = "done"
  /\ UNCHANGED cfg_arg
  /\ UNCHANGED not_cfg_vars

\* parser = CenterNetParser(...)
CallCenterNetParserInit ==
  /\ cfg_pc = "call"
  /\ cfg_arg.fn = "CenterNetParser"
  /\ cfg_ret' = CenterNetParser_init(cfg_arg)
  /\ cfg_pc' = "done"
  /\ UNCHANGED cfg_arg
  /\ UNCHANGED not_cfg_vars

\* params = subdivison_adjustment(params) in train.py
CallSubdivisonAdjustment ==
  /\ cfg_pc = "call"
  /\ cfg_arg.fn = "subdivison_adjustment"
  /\ cfg_ret' = subdivison_adjustment(cfg_arg)
  /\ cfg_pc' = "done"
  /\ UNCHANGED cfg_arg
  /\ UNCHANGED not_cfg_vars

CfgNext ==
  \/ CallParserInit
  \/ CallCenterNetParserInit
  \/ CallSubdivisonAdjustment

ConfigSpec == CfgInit /\ [][CfgNext]_vars

\* ------------------------------------------------------------- properties
IouThresh == << IouThreshNum, IouThreshDen >>

\* the scale (level) whose mask holds the global anchor index a
ScaleOf(a) == CHOOSE l \in Levels : \E m \in DOMAIN Masks[l] : Masks[l][m] = a

\* number of raw instances that survive the padding / clipping
NumRaw == Min(Len(raw.bbox), MaxNumInstances)

\* C1: after build_grided_gt_ind every (row, col, anchor-slot) holds at most
\* one assignment: the objectness map is 0 or 1 everywhere and the compact
\* list carries at most one record per slot.
C1_OneAssignmentPerSlot ==
  pc = "done" =>
    /\ \A c \in Cells(level) : out.full[c] \in {0, 1}
    /\ \A i, j \in 1..num_written :
         i # j => out.indexs[i] # out.indexs[j]

\* C2: the records are written in the mandated order: every primary record
\* before any alternate record, and within each group in non-decreasing
\* instance index.
C2_WriteOrder ==
  \A i, j \in DOMAIN written :
    written[i].at < written[j].at =>
      /\ written[i].phase = "alternate" => written[j].phase = "alternate"
      /\ written[i].phase = written[j].phase =>
           written[i].obj_id <= written[j].obj_id

C2_Witness ==
  /\ pc = "done"
  /\ \E i, j, k \in DOMAIN written :
       /\ written[i].phase = "primary" /\ written[j].phase = "primary"
       /\ written[i].obj_id < written[j].obj_id
       /\ written[k].phase = "alternate"

\* C3: write_grid stops at the instance capacity: never more than
\* num_instances records, every write below index num_instances, and the
\* viable assignments beyond the capacity are dropped while the encoder
\* still runs to completion.
NumViable ==
  Len(viable_primary) + (IF use_tie_breaker THEN Len(viable_alternate) ELSE 0)

C3_Capacity ==
  /\ num_written <= num_instances
  /\ Len(ind_val) = num_written /\ Len(ind_sample) = num_written
  /\ \A i \in DOMAIN written : written[i].at < num_instances
  /\ pc = "done" =>
       /\ num_written = Min(NumViable, num_instances)
       /\ Len(out.indexs) = num_instances
  /\ pc = "error" => NumViable = 0

C3_Witness ==
  /\ pc = "done"
  /\ NumViable > num_instances
  /\ num_written = num_instances
  /\ num_instances > 0

\* the IoU of raw instance b with the anchor of global index a (0-based),
\* both at the origin
IouWith(b, a) ==
  compute_iou(truth_comp(<<0, 0, raw.bbox[b][3], raw.bbox[b][4]>>),
              anchor_comp(<<0, 0, raw.bbox[b][3], raw.bbox[b][4]>>, a + 1), FALSE)

\* rank 0 holds an anchor of maximal IoU
BestRecorded(b) ==
  LET a0 == y_true.best_anchors[b][1]
  IN /\ a0 \in 0..(NumAnchors - 1)
     /\ \A a \in 0..(NumAnchors - 1) : FracGeq(IouWith(b, a0), IouWith(b, a))

\* a lower rank holds its anchor exactly when that anchor's IoU reaches the
\* threshold, and the sentinel -1 otherwise
LowerRecorded(b, r) ==
  LET v == y_true.best_iou_match[b][r]
      a == y_true.best_anchors[b][r]
  IN /\ FracGeq(y_true.best_iou_match[b][r - 1], v)
     /\ FracGeq(v, IouThresh) =>
          /\ a \in 0..(NumAnchors - 1)
          /\ IouWith(b, a) = v
          /\ \A q \in 1..(r - 1) : y_true.best_anchors[b][q] # a
     /\ ~FracGeq(v, IouThresh) => a = 0 - 1

\* C4 as stated: for every instance the rank-0 anchor is recorded whatever
\* its IoU, a lower-ranked anchor is recorded only if its IoU >= iou_thresh
\* and is -1 when its IoU is below iou_thresh.
C4_EveryInstance ==
  pc # "parse" =>
    \A b \in 1..NumRaw :
      /\ BestRecorded(b)
      /\ \A r \in 2..NumAnchors : LowerRecorded(b, r)

\* C4 amended: the same for every instance of positive width * height; an
\* instance whose width * height is not positive has -1 at rank 0 as well.
C4_PositiveArea ==
  pc # "parse" =>
    \A b \in 1..NumRaw :
      IF raw.bbox[b][3] * raw.bbox[b][4] > 0
      THEN /\ BestRecorded(b)
           /\ \A r \in 2..NumAnchors : LowerRecorded(b, r)
      ELSE y_true.best_anchors[b][1] = 0 - 1

C4_Witness ==
  /\ pc = "pad"
  /\ \E b \in 1..NumRaw :
       /\ y_true.best_anchors[b][1] >= 0
       /\ ~FracGeq(IouWith(b, y_true.best_anchors[b][1]), IouThresh)
  /\ \E b \in 1..NumRaw : \E r \in 2..NumAnchors :
       /\ FracGeq(y_true.best_iou_match[b][r], IouThresh)
       /\ FracGeq(IouThresh, y_true.best_iou_match[b][r])
       /\ y_true.best_anchors[b][r] >= 0
  /\ \E b \in 1..NumRaw : \E r \in 2..NumAnchors :
       /\ raw.bbox[b][3] * raw.bbox[b][4] > 0
       /\ y_true.best_anchors[b][r] = 0 - 1

\* an instance is degenerate for the spec when it has zero width, zero
\* height or a centre coordinate outside [0, 1)
ZeroSize(box) == box[3] = 0 \/ box[4] = 0
CentreOutside(box) ==
  box[1] < 0 \/ box[1] >= Den \/ box[2] < 0 \/ box[2] >= Den

AllSentinel(b) == \A r \in 1..NumAnchors : y_true.best_anchors[b][r] = 0 - 1

\* C5 as stated: get_best_anchor returns -1 at every rank for every
\* instance with zero width, zero height or a centre outside [0, 1).
C5_DegenerateSentinel ==
  pc # "parse" =>
    \A b \in 1..NumRaw :
      (ZeroSize(raw.bbox[b]) \/ CentreOutside(raw.bbox[b])) => AllSentinel(b)

\* C5 amended: get_best_anchor returns -1 at every rank for every instance
\* with zero width or zero height; an instance of positive size whose centre
\* is outside [0, 1) keeps its matched anchors and is excluded by the grid
\* encoder's validity mask instead (no record is written for it).
C5_ZeroSizeSentinel ==
  /\ pc # "parse" =>
       \A b \in 1..NumRaw :
         /\ ZeroSize(raw.bbox[b]) => AllSentinel(b)
         /\ (CentreOutside(raw.bbox[b]) /\ ~ZeroSize(raw.bbox[b])) =>
              y_true.best_anchors[b][1] >= 0
  /\ \A i \in DOMAIN written :
       ~CentreOutside(y_true.bbox[written[i].obj_id + 1])

C5_Witness ==
  /\ pc = "done"
  /\ \E b \in 1..NumRaw : raw.bbox[b][3] = 0 /\ raw.bbox[b][4] > 0
  /\ \E b \in 1..NumRaw :
       CentreOutside(raw.bbox[b]) /\ ~ZeroSize(raw.bbox[b])

\* the cell the spec assigns to a single instance: its floored centre and
\* the slot of its best anchor within the scale's mask
FlooredCentreCell(box, a) ==
  << (box[2] * GridSize(level)) \div Den,
     (box[1] * GridSize(level)) \div Den,
     (CHOOSE m \in DOMAIN Masks[level] : Masks[level][m] = a) - 1 >>

SingleMatched ==
  /\ pc \in {"done", "error"}
  /\ Len(raw.bbox) = 1
  /\ raw.bbox[1][3] * raw.bbox[1][4] > 0
  /\ \E a \in 0..(NumAnchors - 1) : ~FracGeq(IouThresh, IouWith(1, a))

OneCellMap ==
  LET a0 == y_true.best_anchors[1][1]
  IN IF ScaleOf(a0) = level
     THEN /\ pc = "done"
          /\ \A c \in Cells(level) :
               out.full[c] =
                 IF c = FlooredCentreCell(raw.bbox[1], a0) THEN 1 ELSE 0
     ELSE pc = "done" => \A c \in Cells(level) : out.full[c] = 0

\* C6 as stated: a single instance whose best-anchor IoU exceeds the
\* threshold gives exactly one nonzero cell, in the scale of its best anchor,
\* and an all-zero map in every other scale.
C6_SingleInstance == SingleMatched => OneCellMap

\* C6 amended: for an instance whose centre is inside [0, 1) and with the tie
\* breaker disabled, the map of the best anchor's scale has exactly one
\* nonzero cell, valued 1, at the floored centre and the best anchor's slot;
\* for every other scale no record is written and the map, when one is
\* returned, is all-zero.
C6_SingleInstanceNoTie ==
  (SingleMatched /\ ~use_tie_breaker /\ ~CentreOutside(raw.bbox[1])) =>
    LET a0 == y_true.best_anchors[1][1]
    IN IF ScaleOf(a0) = level
       THEN /\ pc = "done"
            /\ \A c \in Cells(level) :
                 out.full[c] =
                   IF c = FlooredCentreCell(raw.bbox[1], a0) THEN 1 ELSE 0
       ELSE /\ num_written = 0
            /\ pc = "done" => \A c \in Cells(level) : out.full[c] = 0

C6_Witness ==
  /\ SingleMatched /\ ~use_tie_breaker /\ ~CentreOutside(raw.bbox[1])
  /\ pc = "done"
  /\ ScaleOf(y_true.best_anchors[1][1]) = level
  /\ raw.bbox[1][1] # raw.bbox[1][2]
  /\ out.full[FlooredCentreCell(raw.bbox[1], y_true.best_anchors[1][1])] = 1

\* an alternate record comes from a lower rank that cleared the threshold
AlternateCleared(w) ==
  /\ w.anchor >= 1
  /\ FracGeq(y_true.best_iou_match[w.obj_id + 1][w.anchor + 1], IouThresh)
  /\ y_true.best_anchors[w.obj_id + 1][w.anchor + 1]
       = Masks[level][w.anchor_idx + 1]

\* C7 as stated: every alternate record comes from a lower-ranked anchor
\* that cleared the threshold and lies in a scale different from the scale
\* of the instance's primary assignment.
C7_AlternateOtherScale ==
  \A i \in DOMAIN written :
    written[i].phase = "alternate" =>
      /\ AlternateCleared(written[i])
      /\ ScaleOf(y_true.best_anchors[written[i].obj_id + 1][1]) # level

\* C7 amended: every alternate record comes from a lower-ranked anchor that
\* cleared the threshold and lies in the mask of the scale being encoded,
\* which may be the scale of the instance's primary assignment; it is then
\* another anchor (another slot) than the primary one.
C7_AlternateLowerRank ==
  \A i \in DOMAIN written :
    written[i].phase = "alternate" =>
      /\ AlternateCleared(written[i])
      /\ y_true.best_anchors[written[i].obj_id + 1][written[i].anchor + 1]
           # y_true.best_anchors[written[i].obj_id + 1][1]

C7_Witness ==
  /\ pc = "done"
  /\ \E i \in DOMAIN written :
       /\ written[i].phase = "alternate"
       /\ ScaleOf(y_true.best_anchors[written[i].obj_id + 1][1]) = level

\* C8: a call of Parser._build_grid leaves self._masks as __init__ set them,
\* so that the next image is encoded from the same masks.
C8_MasksKept ==
  p_pc = "idle" =>
    \A l \in Levels :
      /\ p_masks[l].kind = "mask"
      /\ p_masks[l].value = Masks[l]

\* C9: when the true instance count exceeds max_num_instances the heatmap
\* encoder's loop handles only the first max_num_instances instances: it
\* never reads or writes at an instance index >= max_num_instances.
C9_LoopWithinCapacity ==
  \A i \in cn_touched : i < CnMaxNumInstances

\* entries of a heatmap that are not zero, and those that equal 1
NonZero(heatmap) == { c \in DOMAIN heatmap : heatmap[c].peak + heatmap[c].tail > 0 }
IsOne(entry) == entry.peak = 1 /\ entry.tail = 0

\* C10: with use_gaussian_bump=False and one instance every heatmap has
\* exactly one nonzero entry, valued 1; for the centre heatmap it is at
\* (floor(cy), floor(cx), class).
C10_SingleOne ==
  (cn_pc = "done" /\ ~cn_arg.use_gaussian_bump /\ Len(cn_data.bbox) = 1) =>
    LET box == cn_data.bbox[1]
        centre == << cn_data.classes[1] - 1,
                     ((box[1] + box[3]) * CnOutputDims) \div (2 * CnImage),
                     ((box[2] + box[4]) * CnOutputDims) \div (2 * CnImage) >>
    IN /\ \A h \in {tl_heatmaps, br_heatmaps, ct_heatmaps} :
            /\ Cardinality(NonZero(h)) = 1
            /\ \A c \in NonZero(h) : IsOne(h[c])
       /\ NonZero(ct_heatmaps) = {centre}

\* C11: both padding helpers return exactly `instances` entries: the first
\* min(n, c) entries of the input in order, then max(c - n, 0) copies of the
\* pad value, which is 0 for boxes and area and -1 for classes.
C11_PadContract ==
  pad_pc = "done" =>
    LET n == Len(pad_arg.value)
        c == pad_arg.instances
    IN /\ Len(pad_ret) = c
       /\ \A i \in 1..Min(n, c) : pad_ret[i] = pad_arg.value[i]
       /\ \A i \in (Min(n, c) + 1)..c : pad_ret[i] = pad_arg.pad_value
       /\ pad_arg.field \in {"bbox", "area"} => pad_arg.pad_value = 0
       /\ pad_arg.field = "classes" => pad_arg.pad_value = 0 - 1

C11_Witness ==
  /\ pad_pc = "done"
  /\ pad_arg.fn = "pad_max_instances"
  /\ pad_arg.field = "classes"
  /\ Len(pad_arg.value) = 2
  /\ pad_arg.instances = 3
  /\ pad_ret = pad_arg.value \o << 0 - 1 >>

\* ------------------------------------------------- box geometry properties
Corners(box, yxyx) == IF yxyx THEN box ELSE xcycwh_to_yxyx(box)

NonDegenerate(box, yxyx) ==
  IF yxyx THEN box[3] > box[1] /\ box[4] > box[2]
  ELSE box[3] > 0 /\ box[4] > 0

\* the two boxes share no interior point along the x axis / the y axis
SeparatedX(b1, b2, yxyx) ==
  IF yxyx THEN b1[4] <= b2[2] \/ b2[4] <= b1[2]
  ELSE 2 * Abs(b1[1] - b2[1]) >= b1[3] + b2[3]

SeparatedY(b1, b2, yxyx) ==
  IF yxyx THEN b1[3] <= b2[1] \/ b2[3] <= b1[1]
  ELSE 2 * Abs(b1[2] - b2[2]) >= b1[4] + b2[4]

IsDone(fn) == bx_pc = "done" /\ bx_arg.fn = fn

\* C12: corner form -> centre form -> corner form returns the original box,
\* and so does centre form -> corner form -> centre form (the result is the
\* box in quarter units, each conversion doubling the coordinates).
C12_RoundTrip ==
  IsDone("round_trip") =>
    bx_ret = [c \in 1..4 |-> 4 * bx_arg.box1[1][c]]

C12_Witness ==
  /\ IsDone("round_trip")
  /\ bx_arg.yxyx
  /\ bx_arg.box1[1] = <<0, 3, 2, 4>>
  /\ bx_ret = <<0, 12, 8, 16>>

\* C13: the IoU of a non-degenerate box with itself is 1, and the IoU of two
\* boxes separated on the x axis, on the y axis or on both is 0.
C13_IouSelfAndDisjoint ==
  IsDone("compute_iou") =>
    \A i \in DOMAIN bx_arg.box1 :
      LET b1 == bx_arg.box1[i]
          b2 == bx_arg.box2[i]
      IN /\ (b1 = b2 /\ NonDegenerate(b1, bx_arg.yxyx)) =>
              (bx_ret[i][2] > 0 /\ bx_ret[i][1] = bx_ret[i][2])
         /\ (SeparatedX(b1, b2, bx_arg.yxyx) \/ SeparatedY(b1, b2, bx_arg.yxyx)) =>
              (bx_ret[i][2] > 0 /\ bx_ret[i][1] = 0)

C13_Witness ==
  /\ IsDone("compute_iou")
  /\ bx_arg.yxyx
  /\ bx_arg.box1 = << <<0, 0, 2, 2>>, <<1, 1, 5, 5>> >>
  /\ bx_arg.box2 = << <<3, 3, 4, 4>>, <<1, 1, 5, 5>> >>
  /\ bx_ret = << <<0, 5>>, <<16, 16>> >>

\* C14: compute_iou is 0, not undefined, when the union is 0, and the
\* regularisation terms of compute_giou and compute_diou are 0 when their
\* denominators (c, diag_dist) are 0, so that the metric is then the IoU.
Defined(p) == p[2] > 0

C14_GuardedDivision ==
  /\ IsDone("compute_iou") =>
       \A i \in DOMAIN bx_arg.box1 :
         intersect_and_union(bx_arg.box1[i], bx_arg.box2[i], bx_arg.yxyx)[2] = 0
           => (Defined(bx_ret[i]) /\ bx_ret[i][1] = 0)
  /\ IsDone("compute_giou") =>
       \A i \in DOMAIN bx_arg.box1 :
         /\ intersect_and_union(bx_arg.box1[i], bx_arg.box2[i], bx_arg.yxyx)[2] = 0
              => (Defined(bx_ret.iou[i]) /\ bx_ret.iou[i][1] = 0)
         /\ giou_c(bx_arg.box1, bx_arg.box2, bx_arg.yxyx) = 0
              => (Defined(bx_ret.giou[i]) /\ FracEq(bx_ret.giou[i], bx_ret.iou[i]))
  /\ IsDone("compute_diou") =>
       \A i \in DOMAIN bx_arg.box1 :
         diou_diag_dist(bx_arg.box1[i], bx_arg.box2[i], bx_arg.yxyx) = 0
           => (Defined(bx_ret[i].diou) /\ FracEq(bx_ret[i].diou, bx_ret[i].iou))

C14_Witness ==
  /\ IsDone("compute_giou")
  /\ bx_arg.yxyx
  /\ bx_arg.box1 = << <<1, 1, 1, 1>> >>
  /\ bx_arg.box2 = << <<1, 1, 1, 1>> >>
  /\ intersect_and_union(bx_arg.box1[1], bx_arg.box2[1], TRUE)[2] = 0
  /\ giou_c(bx_arg.box1, bx_arg.box2, TRUE) = 0
  /\ bx_ret.iou[1][1] = 0 /\ Defined(bx_ret.iou[1])
  /\ bx_ret.giou[1][1] = 0 /\ Defined(bx_ret.giou[1])

\* the smallest axis-aligned box enclosing both boxes, and its area, in the
\* unit of the corners
Enclosing(k1, k2) ==
  << Min(k1[1], k2[1]), Min(k1[2], k2[2]), Max(k1[3], k2[3]), Max(k1[4], k2[4]) >>

Area(k) == (k[3] - k[1]) * (k[4] - k[2])

Contains(outer, inner) ==
  /\ outer[1] <= inner[1] /\ outer[2] <= inner[2]
  /\ outer[3] >= inner[3] /\ outer[4] >= inner[4]

\* the corners of box i of smallest_encompassing_box and of the two
\* arguments in one common unit
EncompassingCorners(i) ==
  LET boxc == smallest_encompassing_box(bx_arg.box1, bx_arg.box2, bx_arg.yxyx)[i]
  IN IF bx_arg.yxyx THEN boxc ELSE xcycwh_to_yxyx(boxc)

ArgumentCorners(box) ==
  IF bx_arg.yxyx THEN box
  ELSE [c \in 1..4 |-> 4 * xcycwh_to_yxyx(box)[c]]

\* C15: for every pair of a batch compute_giou returns
\* iou - (C - union) / C, C being the area of the smallest box enclosing the
\* pair, and the box of smallest_encompassing_box contains both boxes.
C15_GiouEnclosing ==
  IsDone("compute_giou") =>
    \A i \in DOMAIN bx_arg.box1 :
      LET k1 == Corners(bx_arg.box1[i], bx_arg.yxyx)
          k2 == Corners(bx_arg.box2[i], bx_arg.yxyx)
          C == Area(Enclosing(k1, k2))
          union == intersect_and_union(bx_arg.box1[i], bx_arg.box2[i],
                                       bx_arg.yxyx)[2]
          expected == FracSub(bx_ret.iou[i], divide_no_nan(C - union, C))
      IN /\ FracEq(bx_ret.giou[i], expected)
         /\ Contains(EncompassingCorners(i), ArgumentCorners(bx_arg.box1[i]))
         /\ Contains(EncompassingCorners(i), ArgumentCorners(bx_arg.box2[i]))

\* C16: the extended metric of compute_giou, compute_diou and compute_ciou
\* is within [-1, 1] for every pair of boxes.
InRange(p) == Defined(p) /\ 0 - p[2] <= p[1] /\ p[1] <= p[2]

C16_MetricRange ==
  /\ IsDone("compute_giou") => \A i \in DOMAIN bx_arg.box1 : InRange(bx_ret.giou[i])
  /\ IsDone("compute_diou") => \A i \in DOMAIN bx_arg.box1 : InRange(bx_ret[i].diou)
  /\ IsDone("compute_ciou") => \A i \in DOMAIN bx_arg.box1 : InRange(bx_ret[i].ciou)

C16_Witness ==
  /\ IsDone("compute_giou")
  /\ FracLess(<<1, 1>>,
              FracSub(bx_ret.iou[1],
                      giou_regularization(bx_arg.box1, bx_arg.box2,
                                          bx_arg.yxyx, 1)))
  /\ FracEq(bx_ret.giou[1], <<1, 1>>)

\* the metric a selector stands for, of one pair of corner-form boxes
SelectedMetric(iou_type, b1, b2) ==
  IF iou_type = 0 THEN compute_diou(b1, b2, TRUE).diou
  ELSE IF iou_type = 1 THEN compute_giou(<<b1>>, <<b2>>, TRUE).giou[1]
  ELSE compute_iou(b1, b2, TRUE)

\* C17: for box sets of any sizes and for each of the three selectors the
\* result of aggregated_comparitive_iou at (i, j) is the selected metric of
\* boxes1[i] and boxes2[j].
C17_AllPairs ==
  IsDone("aggregated_comparitive_iou") =>
    LET second == IF bx_arg.is_none THEN bx_arg.box1 ELSE bx_arg.box2
    IN /\ ~bx_ret.raised
       /\ DOMAIN bx_ret.iou = (DOMAIN bx_arg.box1) \X (DOMAIN second)
       /\ \A c \in DOMAIN bx_ret.iou :
            FracEq(bx_ret.iou[c],
                   SelectedMetric(bx_arg.iou_type, bx_arg.box1[c[1]], second[c[2]]))

\* ------------------------------------------------------ k-means properties
\* the assignment the loop would compute next
NextAssignment == Assign(km_self._boxes, clusters, km_nan)

\* C18: run_kmeans always terminates (it returns or raises); when its loop is
\* left, either the assignment of every box is unchanged or max_iter
\* iterations have been performed; and it never performs more than max_iter
\* centroid updates.
C18_Terminates ==
  /\ <>(km_pc \in {"done", "error"})
  /\ [](km_pc = "sort" => (NextAssignment = last \/ num_iters = max_iter))
  /\ [](km_updates <= max_iter /\ km_updates = num_iters)

\* the loop was stopped by the cap while the assignment was still changing
C18_Witness ==
  /\ km_pc = "sort"
  /\ max_iter >= 1
  /\ km_updates = max_iter
  /\ NextAssignment # last

\* the corpus has pairwise distinct rows and k is the number of rows
DistinctCorpus ==
  /\ km_self.is_ndarray
  /\ km_self._k = Len(km_self._boxes)
  /\ \A i, j \in DOMAIN km_self._boxes :
       i # j => km_self._boxes[i] # km_self._boxes[j]

\* every row has a positive width and a positive height
PositiveCorpus ==
  \A i \in DOMAIN km_self._boxes :
    km_self._boxes[i][1] > 0 /\ km_self._boxes[i][2] > 0

\* the centroid c is the corpus row b
IsRow(c, b) == c[3] > 0 /\ c[1] = b[1] * c[3] /\ c[2] = b[2] * c[3]

\* the centroids cs are exactly the corpus rows, in some order
ExactlyTheCorpus(cs) ==
  /\ Len(cs) = Len(km_self._boxes)
  /\ \E p \in Permutations(DOMAIN km_self._boxes) :
       \A i \in DOMAIN cs : IsRow(cs[i], km_self._boxes[p[i]])

\* the centroids cs, all defined, are in ascending order of width x height
AscendingArea(cs) ==
  \A i, j \in DOMAIN cs :
    i < j => cs[i][1] * cs[i][2] * cs[j][3] * cs[j][3]
               <= cs[j][1] * cs[j][2] * cs[i][3] * cs[i][3]

\* one iteration is enough: the loop is left after at most one centroid
\* update, with the centroids at the corpus rows and the assignment settled,
\* and the rows are returned in ascending order of area
OneIterationToCorpus ==
  /\ km_pc = "sort" =>
       /\ num_iters <= 1
       /\ ExactlyTheCorpus(clusters)
       /\ max_iter >= 1 => NextAssignment = last
  /\ km_pc = "done" =>
       /\ num_iters <= 1
       /\ ExactlyTheCorpus(km_ret.clusters)
       /\ AscendingArea(km_ret.clusters)

SameCentroids(cs, ds) ==
  /\ Len(cs) = Len(ds)
  /\ \E p \in Permutations(DOMAIN ds) : \A i \in DOMAIN cs : cs[i] = ds[p[i]]

\* C20: a call of MiniBatchKMeansNN.__call__ that was interrupted inside its
\* epoch/batch loop does not fail: it returns the clusters obtained so far,
\* sorted by ascending area.
C20_InterruptReturns ==
  (mb_pc \in {"done", "error"} /\ mb_ret.interrupted) =>
    /\ mb_pc = "done"
    /\ mb_ret.raised = "none"
    /\ SameCentroids(mb_ret.clusters, mb_clusters.value)
    /\ AscendingArea(mb_ret.clusters)

\* ------------------------------------------------ grid encoder properties
\* the record the encoder wrote for the history entry w
RecordOf(w) == ind_val[w.at + 1]

\* C22: each record written by write_grid for an instance targets
\* (row, col, slot) with row = floor(center_y * grid_height),
\* col = floor(center_x * grid_width) and slot the position of the matched
\* anchor's global index within the scale's mask, and these lie within
\* 0 <= row < size, 0 <= col < size, 0 <= slot < len(mask).
C22_GridIndex ==
  \A i \in DOMAIN written :
    LET w == written[i]
        box == y_true.bbox[w.obj_id + 1]
        rec == RecordOf(w)
        sz == GridSize(level)
    IN /\ rec[1] * Den <= box[2] * sz /\ box[2] * sz < (rec[1] + 1) * Den
       /\ rec[2] * Den <= box[1] * sz /\ box[1] * sz < (rec[2] + 1) * Den
       /\ rec[3] \in 0..(Len(Masks[level]) - 1)
       /\ Masks[level][rec[3] + 1] = y_true.best_anchors[w.obj_id + 1][w.anchor + 1]
       /\ rec[1] \in 0..(sz - 1)
       /\ rec[2] \in 0..(sz - 1)

\* a record off the diagonal, in the second slot of its mask
C22_Witness ==
  /\ pc = "done"
  /\ \E i \in DOMAIN written :
       /\ RecordOf(written[i])[1] # RecordOf(written[i])[2]
       /\ RecordOf(written[i])[3] = 1
       /\ out.indexs[written[i].at + 1] = RecordOf(written[i])

\* the records of the primary phase, in the order written
PrimaryWritten ==
  LET n == Cardinality({ i \in DOMAIN written : written[i].phase = "primary" })
  IN [i \in 1..n |-> [idx |-> ind_val[i], sample |-> ind_sample[i]]]

\* the records the primary phase has to produce for the labels and the scale,
\* whatever use_tie_breaker is: one per valid instance whose rank-0 anchor is
\* in the mask, in instance order, up to the capacity
ExpectedPrimary ==
  LET valid == { b \in DOMAIN y_true.bbox :
                   /\ _gen_utility(y_true.bbox[b])
                   /\ \E m \in DOMAIN Masks[level] :
                        y_true.best_anchors[b][1] = Masks[level][m] }
      kept == { b \in valid :
                  Cardinality({ o \in valid : o < b }) < Len(y_true.bbox) }
      nth(i) == CHOOSE b \in kept : Cardinality({ o \in kept : o < b }) = i - 1
      slot(b) == CHOOSE m \in DOMAIN Masks[level] :
                   y_true.best_anchors[b][1] = Masks[level][m]
  IN [i \in 1..Cardinality(kept) |->
        [idx |-> << (y_true.bbox[nth(i)][2] * GridSize(level)) \div Den,
                    (y_true.bbox[nth(i)][1] * GridSize(level)) \div Den,
                    slot(nth(i)) - 1 >>,
         sample |-> [box |-> y_true.bbox[nth(i)], ind_mask |-> 1,
                     class |-> y_true.classes[nth(i)],
                     iou |-> y_true.best_iou_match[nth(i)][1],
                     reps |-> num_reps[nth(i)]]]]

\* C23: with use_tie_breaker = False build_grided_gt_ind writes only primary
\* assignments: every record comes from an instance's rank-0 anchor, no
\* instance contributes more than one record to the scale, and the records
\* are the primary-phase records of the run with use_tie_breaker = True
\* (in both runs the primary phase writes ExpectedPrimary).
C23_PrimaryOnly ==
  pc \in {"stack", "done", "error"} =>
    /\ PrimaryWritten = ExpectedPrimary
    /\ ~use_tie_breaker =>
         /\ Len(ind_val) = Len(PrimaryWritten)
         /\ num_written = Len(PrimaryWritten)
         /\ \A i \in DOMAIN written :
              written[i].phase = "primary" /\ written[i].anchor = 0
         /\ \A i, j \in DOMAIN written :
              i # j => written[i].obj_id # written[j].obj_id

\* two primary records written without the tie breaker while an alternate
\* assignment was viable
C23_Witness ==
  /\ pc = "done"
  /\ ~use_tie_breaker
  /\ num_written = 2
  /\ Len(viable_alternate) > 0
  /\ PrimaryWritten = ExpectedPrimary

\* the mask of the scale being encoded has pairwise distinct entries
DistinctMask ==
  \A m, n \in DOMAIN Masks[level] : m # n => Masks[level][m] # Masks[level][n]

\* number of records the phase ph has written
WrittenIn(ph) == Cardinality({ i \in DOMAIN written : written[i].phase = ph })

\* C26: when the entries of the scale's mask are pairwise distinct, each
\* instance has at most one viable primary assignment, the primary phase
\* writes every one of them (at most num_instances) and is never cut short
\* by the capacity check; only alternate assignments are ever dropped.
C26_PrimaryNeverTruncated ==
  (DistinctMask /\ pc \in {"primary", "alternate", "stack", "done", "error"}) =>
    /\ \A i, j \in DOMAIN viable_primary :
         i # j => viable_primary[i][1] # viable_primary[j][1]
    /\ Len(viable_primary) <= num_instances
    /\ pc = "primary" =>
         (val < Len(viable_primary) => ~capacity_reached(num_written, num_instances))
    /\ pc # "primary" => WrittenIn("primary") = Len(viable_primary)

\* the capacity check cut the alternate phase short after a full primary phase
C26_Witness ==
  /\ pc = "done"
  /\ DistinctMask
  /\ Len(viable_primary) = 2
  /\ WrittenIn("primary") = 2
  /\ num_written = num_instances
  /\ WrittenIn("alternate") < Len(viable_alternate)

\* the sum of the cells S of the objectness map
RECURSIVE SumCells(_)
SumCells(S) ==
  IF S = {} THEN 0
  ELSE LET c == CHOOSE c \in S : TRUE
       IN out.full[c] + SumCells(S \ {c})

\* C27: the objectness map returned by build_grided_gt_ind is the additive
\* accumulation of the written records: each cell holds the number of written
\* records whose grid index is that cell, and the cells add up to num_written.
C27_AdditiveMap ==
  pc = "done" =>
    /\ \A c \in Cells(level) :
         out.full[c] = Cardinality({ i \in 1..num_written : ind_val[i] = c })
    /\ SumCells(Cells(level)) = num_written

\* two records accumulated in one cell
C27_Witness ==
  /\ pc = "done"
  /\ num_written >= 2
  /\ \E c \in Cells(level) : out.full[c] = 2
  /\ SumCells(Cells(level)) = num_written

\* an instance the encoder must skip: width and height both <= 0, or a centre
\* coordinate outside [0, 1)
Unusable(box) ==
  \/ box[3] <= 0 /\ box[4] <= 0
  \/ box[1] < 0 \/ box[1] >= Den
  \/ box[2] < 0 \/ box[2] >= Den

\* a padding row of the parser: an all-zero box whose best-anchor entries
\* were padded with 0
PaddingRow(i) ==
  /\ i > Len(raw.bbox)
  /\ y_true.bbox[i] = <<0, 0, 0, 0>>
  /\ y_true.best_anchors[i] = ZeroRow

\* C28: build_grided_gt_ind writes no record for an instance whose width and
\* height are both <= 0 or whose centre x or y lies outside [0, 1), whatever
\* its best_anchors entries are, padding rows with best anchor 0 included
C28_NoRecordForUnusable ==
  \A j \in DOMAIN written :
    /\ written[j].obj_id + 1 \in DOMAIN y_true.bbox
    /\ ~Unusable(y_true.bbox[written[j].obj_id + 1])
    /\ ~PaddingRow(written[j].obj_id + 1)

\* a finished encoding at a scale whose mask holds anchor 0, with a padding
\* row, an out-of-range instance whose best anchor is in the mask, and a
\* record written for another instance
C28_Witness ==
  /\ pc = "done"
  /\ num_written >= 1
  /\ \E m \in DOMAIN Masks[level] : Masks[level][m] = 0
  /\ \E i \in DOMAIN y_true.bbox : PaddingRow(i)
  /\ \E i \in DOMAIN y_true.bbox :
       /\ i <= Len(raw.bbox)
       /\ Unusable(y_true.bbox[i])
       /\ \E m \in DOMAIN Masks[level] :
            Masks[level][m] = y_true.best_anchors[i][1]


\* C29: in every iteration of run_kmeans that recomputes the centroids, each
\* of the k clusters has at least one box assigned to it, so each recomputed
\* centroid is the mean of a non-empty set of boxes
C29_NoEmptyCluster ==
  (km_pc = "loop" /\ km_updates > 0) =>
    \A i \in 1..km_self._k :
      /\ \E b \in DOMAIN last : last[b] = i - 1
      /\ ~IsNaN(clusters[i])

\* ---- constructors and train.py set-up: properties
SupportedSelectors == { "float16", "bfloat16", "float32" }

ConstructorDone ==
  cfg_pc = "done" /\ cfg_arg.fn \in { "Parser", "CenterNetParser" }

\* C21: constructing CenterNetParser or the YOLO Parser with a dtype selector
\* other than 'float16', 'bfloat16' or 'float32' raises an exception at
\* construction, so every parser object obtained has its numeric precision set
C21_UnsupportedDtypeRaises ==
  ConstructorDone =>
    /\ cfg_arg.dtype \notin SupportedSelectors => cfg_ret.raised # ""
    /\ cfg_ret.raised = "" =>
         cfg_ret._dtype \in { "tf.float16", "tf.bfloat16", "tf.float32" }

\* a YOLO Parser given masks and the selector 'float64': the dtype branch
\* raised
C21_Witness ==
  /\ ConstructorDone
  /\ cfg_arg.fn = "Parser" /\ ~cfg_arg.masks_is_none
  /\ cfg_arg.dtype = "float64"
  /\ cfg_ret.raised = "Exception"

\* stored is a multiple of n and no multiple of n is nearer to configured
ClosestMultiple(stored, configured, n) ==
  /\ stored % n = 0
  /\ \A m \in { k * n : k \in 0..(MaxImage + 1) } :
       Abs(m - configured) >= Abs(stored - configured)

\* C25: the YOLO Parser stores as _image_w and _image_h multiples of
\* net_down_scale = 2**max_level, and no other multiple of net_down_scale is
\* nearer to the configured width or height
C25_ClosestMultiple ==
  (cfg_pc = "done" /\ cfg_arg.fn = "Parser" /\ cfg_ret.raised = "") =>
    /\ ClosestMultiple(cfg_ret._image_w, cfg_arg.image_w, cfg_ret._net_down_scale)
    /\ ~cfg_arg.image_h_is_none =>
         ClosestMultiple(cfg_ret._image_h, cfg_arg.image_h,
                         cfg_ret._net_down_scale)

\* r is the largest multiple of s not exceeding v
LargestMultiple(r, v, s) ==
  /\ \E q \in 0..v : r = q * s
  /\ r <= v
  /\ r + s > v

AdjustedIntervals ==
  { "validation_interval", "checkpoint_interval", "steps_per_loop",
    "summary_interval" }

\* C30: subdivison_adjustment returns params unchanged when the model has no
\* subdivisions attribute or subdivisions <= 1; with subdivisions = s > 1 the
\* validation, checkpoint, steps-per-loop and summary intervals become the
\* largest multiple of s not exceeding the original value, train_steps is
\* multiplied by s and the train global_batch_size is integer-divided by s
C30_SubdivisionAdjustment ==
  (cfg_pc = "done" /\ cfg_arg.fn = "subdivison_adjustment") =>
    LET s == cfg_arg.subdivisions
    IN IF ~cfg_arg.has_subdivisions \/ s <= 1
         THEN cfg_ret = cfg_arg
         ELSE /\ \A f \in AdjustedIntervals :
                   LargestMultiple(cfg_ret[f], cfg_arg[f], s)
              /\ cfg_ret.train_steps = cfg_arg.train_steps * s
              /\ cfg_ret.global_batch_size * s <= cfg_arg.global_batch_size
              /\ (cfg_ret.global_batch_size + 1) * s > cfg_arg.global_batch_size

\* an adjustment with s = 2 of intervals of which one is odd and one even
C30_Witness ==
  /\ cfg_pc = "done" /\ cfg_arg.fn = "subdivison_adjustment"
  /\ cfg_arg.has_subdivisions /\ cfg_arg.subdivisions = 2
  /\ cfg_arg.validation_interval = MaxSteps - 1
  /\ cfg_ret.validation_interval = MaxSteps - 2
  /\ cfg_arg.summary_interval = MaxSteps
  /\ cfg_ret.summary_interval = MaxSteps
  /\ cfg_ret.train_steps = 2 * cfg_arg.train_steps

\* ---- CenterNet regressed features: properties
\* C24: after _build_heatmap_and_regressed_features, box_mask[i] is 1 exactly
\* for the indices i < num_detections and 0 for every other index, and the
\* rows of tl_offset, br_offset, ct_offset, size and box_indices at every
\* index i >= num_detections are all 0
C24_MaskAndPadding ==
  cn_pc = "done" =>
    \A i \in DOMAIN box_mask :
      /\ box_mask[i] = (IF i - 1 < cn_labels.num_detections THEN 1 ELSE 0)
      /\ i - 1 >= cn_labels.num_detections =>
           /\ tl_offset[i] = <<0, 0>>
           /\ br_offset[i] = <<0, 0>>
           /\ ct_offset[i] = <<0, 0>>
           /\ size[i] = <<0, 0>>
           /\ box_indices[i] = <<0, 0>>

\* a finished call with an instance whose offset, size and centre are not
\* all zero and with a padding row behind it
C24_Witness ==
  /\ cn_pc = "done"
  /\ cn_labels.num_detections >= 1
  /\ cn_labels.num_detections < Len(box_mask)
  /\ box_mask[1] = 1
  /\ box_mask[Len(box_mask)] = 0
  /\ size[1] # <<0, 0>>
  /\ box_indices[1] # <<0, 0>>
  /\ \E i \in 1..cn_labels.num_detections : ct_offset[i] # <<0, 0>>

====
